---- MODULE Spec2Model ----
(***************************************************************************)
(* A model of the data pipeline of CREsted / enhancerai:                   *)
(*   - the split_dict-based CustomDataset (construction and generator),    *)
(*   - DatasetSplitter,                                                    *)
(*   - import_topics.                                                      *)
(*                                                                         *)
(* Conventions.                                                            *)
(*   - Python lists are sequences; the values held in index lists are the  *)
(*     0-based Python indices, so region i of Python is all_regions[i+1].  *)
(*   - A region and a target row carry a ghost field `line`: the BED line  *)
(*     (1-based position in the file) it was read from.  The code never    *)
(*     reads it; it only lets alignment be stated.                         *)
(*   - Floats are exact rationals: fraction_of_data is fNum/fDen, target   *)
(*     values are whole multiples of the 1e-7 that calc_gini adds.         *)
(*   - list(a_set) has no order the code controls: it is any enumeration.  *)
(***************************************************************************)
EXTENDS Integers, Sequences, FiniteSets, TLC

VARIABLES
    bed,        \* the BED file: a sequence of lines
    genome,     \* the FASTA file: chromosome name -> sequence of bases
    targetsFile,\* the "targets" array of the npz file
    args,       \* the constructor's other arguments
    ds,         \* the CustomDataset objects, one per construction
    gen,        \* the running generator of a CustomDataset
    sp,         \* a DatasetSplitter
    io,         \* an import_topics call
    loader,     \* a GenomicRegionLoader
    cfgds       \* a CustomDataset of the config-based class

vars == <<bed, genome, targetsFile, args, ds, gen, sp, io, loader, cfgds>>

(***************************************************************************)
(* Bounds of the model.                                                    *)
(***************************************************************************)
MaxBlocks == 3
FracDen == 2
MaxLines == 3
MaxGenLines == 2
MaxRegions == 4
MaxPeaks == 2
MaxRows == 5
MaxShift == 2

Chroms == {"chr1", "chr2", "chr3"}
BlockSizes == {1, 3, 13}
Inst == {1, 2}
Off == [pc |-> "off"]

(***************************************************************************)
(* Generic helpers.                                                        *)
(***************************************************************************)
Range(s) == {s[i] : i \in DOMAIN s}

Abs(x) == IF x < 0 THEN -x ELSE x

Min(a, b) == IF a < b THEN a ELSE b

RECURSIVE SumSeq(_)
SumSeq(s) == IF s = <<>> THEN 0 ELSE s[1] + SumSeq(Tail(s))

RECURSIVE SelectSeqBy(_, _)
\* s[k] for the 1-based positions k listed in pos, in that order
SelectSeqBy(s, pos) ==
    IF pos = <<>> THEN <<>> ELSE <<s[pos[1]]>> \o SelectSeqBy(s, Tail(pos))

RECURSIVE Flatten(_)
Flatten(ss) == IF ss = <<>> THEN <<>> ELSE ss[1] \o Flatten(Tail(ss))

\* list(S) for a Python set S: every enumeration of S without repetition
ListsOf(S) ==
    {l \in [1..Cardinality(S) -> S] : \A i, j \in DOMAIN l : l[i] = l[j] => i = j}

\* Python's s[:k] for 0 <= k
Take(s, k) == SubSeq(s, 1, Min(k, Len(s)))

\* Python's s[::2]
EveryOther(s) == [k \in 1..((Len(s) + 1) \div 2) |-> s[2 * k - 1]]

\* int(np.ceil(n * num / den)) and int(n * num / den), for n, num >= 0 < den
CeilMul(n, num, den) == (n * num + den - 1) \div den

FloorMul(n, num, den) == (n * num) \div den

\* int(round(n / 10)): Python rounds a half to the even neighbour
RoundTenth(n) ==
    LET q == n \div 10
        r == n % 10
    IN  IF r < 5 THEN q
        ELSE IF r > 5 THEN q + 1
        ELSE IF q % 2 = 0 THEN q ELSE q + 1

(***************************************************************************)
(* CustomDataset._load_bed_file                                            *)
(***************************************************************************)
Region(l, k, strand) ==
    [chrom |-> l.chrom, start |-> l.start, end |-> l.end,
     strand |-> strand, line |-> k]

LoadBedFile(file, reverse_complement) ==
    Flatten([k \in DOMAIN file |->
        IF file[k].comment THEN <<>>
        ELSE IF reverse_complement
             THEN <<Region(file[k], k, "+"), Region(file[k], k, "-")>>
             ELSE <<Region(file[k], k, "+")>>])

(***************************************************************************)
(* CustomDataset._get_chromosome_counts: a dict, so its keys are in order  *)
(* of first appearance.                                                    *)
(***************************************************************************)
RECURSIVE FirstAppearance(_, _)
FirstAppearance(regions, seen) ==
    IF regions = <<>> THEN <<>>
    ELSE IF regions[1].chrom \in seen THEN FirstAppearance(Tail(regions), seen)
    ELSE <<regions[1].chrom>>
         \o FirstAppearance(Tail(regions), seen \cup {regions[1].chrom})

ChromKeys(regions) == FirstAppearance(regions, {})

ChromCount(regions, c) ==
    Cardinality({i \in DOMAIN regions : regions[i].chrom = c})

(***************************************************************************)
(* sorted(keys, key=chrom_counts.get): a stable sort by ascending count.   *)
(***************************************************************************)
\* mutant: an insertion that puts a chromosome before those of equal count
RECURSIVE InsertByCount_TiesReversed(_, _, _)
InsertByCount_TiesReversed(sorted, c, regions) ==
    IF sorted = <<>> THEN <<c>>
    ELSE IF ChromCount(regions, sorted[Len(sorted)]) < ChromCount(regions, c)
         THEN Append(sorted, c)
         ELSE Append(InsertByCount_TiesReversed(
                         SubSeq(sorted, 1, Len(sorted) - 1), c, regions),
                     sorted[Len(sorted)])

RECURSIVE InsertByCount(_, _, _)
InsertByCount(sorted, c, regions) ==
    IF sorted = <<>> THEN <<c>>
    ELSE IF ChromCount(regions, sorted[Len(sorted)]) <= ChromCount(regions, c)
         THEN Append(sorted, c)
         ELSE Append(InsertByCount(SubSeq(sorted, 1, Len(sorted) - 1), c, regions),
                     sorted[Len(sorted)])

RECURSIVE StableSortByCount(_, _)
StableSortByCount(keys, regions) ==
    IF keys = <<>> THEN <<>>
    ELSE InsertByCount(
            StableSortByCount(SubSeq(keys, 1, Len(keys) - 1), regions),
            keys[Len(keys)], regions)

SortedChroms(regions, excluded) ==
    StableSortByCount(
        SelectSeq(ChromKeys(regions), LAMBDA c : c \notin excluded), regions)

TargetCount(regions, excluded) ==
    RoundTenth(Cardinality({i \in DOMAIN regions : regions[i].chrom \notin excluded}))

(***************************************************************************)
(* CustomDataset._select_chromosomes_for_subset: the loop, from position k *)
(* of sorted_chroms with the chromosomes selected so far.                  *)
(***************************************************************************)
\* mutant: on a tie the next chromosome is taken too
RECURSIVE SelectLoop_TieTakesNext(_, _, _, _, _, _)
SelectLoop_TieTakesNext(sorted, k, selected, current, target, regions) ==
    IF k > Len(sorted) THEN selected
    ELSE IF current + ChromCount(regions, sorted[k]) <= target
    THEN SelectLoop_TieTakesNext(sorted, k + 1, selected \cup {sorted[k]},
                                 current + ChromCount(regions, sorted[k]),
                                 target, regions)
    ELSE IF Abs(target - (current + ChromCount(regions, sorted[k])))
               <= Abs(target - current)
    THEN selected \cup {sorted[k]}
    ELSE selected

RECURSIVE SelectLoop(_, _, _, _, _, _)
SelectLoop(sorted, k, selected, current, target, regions) ==
    IF k > Len(sorted) THEN selected
    ELSE LET n == ChromCount(regions, sorted[k])
         IN  IF current + n <= target
             THEN SelectLoop(sorted, k + 1, selected \cup {sorted[k]},
                             current + n, target, regions)
             ELSE IF Abs(target - (current + n)) < Abs(target - current)
                  THEN selected \cup {sorted[k]}
                  ELSE selected

SelectChromosomesForSubset(regions, excluded) ==
    SelectLoop(SortedChroms(regions, excluded), 1, {}, 0,
               TargetCount(regions, excluded), regions)

(***************************************************************************)
(* calc_gini and filter_regions_on_specificity.  A target value v stands   *)
(* for v * 1e-7, so "+ 0.0000001" adds GiniEps = 1; the Gini coefficient   *)
(* does not depend on the unit.  A score is a fraction <<num, den>>,       *)
(* den > 0.                                                                *)
(***************************************************************************)
GiniEps == 1
GiniStdThreshold == 1

RECURSIVE InsertInt(_, _)
InsertInt(sorted, x) ==
    IF sorted = <<>> THEN <<x>>
    ELSE IF sorted[Len(sorted)] <= x THEN Append(sorted, x)
    ELSE Append(InsertInt(SubSeq(sorted, 1, Len(sorted) - 1), x),
                sorted[Len(sorted)])

RECURSIVE SortInts(_)
SortInts(s) ==
    IF s = <<>> THEN <<>>
    ELSE InsertInt(SortInts(SubSeq(s, 1, Len(s) - 1)), s[Len(s)])

\* _gini(array), the array sorted
GiniOfSorted(a) ==
    <<SumSeq([j \in DOMAIN a |-> (2 * j - Len(a) - 1) * a[j]]), Len(a) * SumSeq(a)>>

Gini(vals) ==
    GiniOfSorted(SortInts([j \in DOMAIN vals |->
        (IF vals[j] < 0 THEN 0 ELSE vals[j]) + GiniEps]))

\* np.argmax: the first position of the largest value (1-based)
ArgMax(vals) ==
    CHOOSE j \in DOMAIN vals :
        /\ \A k \in DOMAIN vals : vals[k] <= vals[j]
        /\ \A k \in 1..(j - 1) : vals[k] < vals[j]

\* a row of gini_scores: 0 everywhere but at the argmax of the targets
GiniRow(vals, g, m) == [j \in DOMAIN vals |-> IF j = m THEN g ELSE <<0, 1>>]

\* np.max over a row of fractions
MaxFraction(row) ==
    row[CHOOSE j \in DOMAIN row :
            \A k \in DOMAIN row : row[k][1] * row[j][2] <= row[j][1] * row[k][2]]

\* np.max(gini_scores, axis=1) for one row
RowScore(vals) == MaxFraction(GiniRow(vals, Gini(vals), ArgMax(vals)))

RECURSIVE Gcd(_, _)
Gcd(a, b) == IF b = 0 THEN a ELSE Gcd(b, a % b)

RECURSIVE LcmSeq(_)
LcmSeq(s) ==
    IF s = <<>> THEN 1
    ELSE LET l == LcmSeq(Tail(s)) IN (s[1] * l) \div Gcd(s[1], l)

\* np.max(gini_scores, axis=1): one score per row of target_vector
RowScores(target_vector) ==
    [r \in DOMAIN target_vector |-> RowScore(target_vector[r].vals)]

\* the scores over their common denominator
Numerators(scores, L) ==
    [r \in DOMAIN scores |-> scores[r][1] * (L \div scores[r][2])]

CommonNumerators(scores) ==
    Numerators(scores, LcmSeq([r \in DOMAIN scores |-> scores[r][2]]))

\* R * (score - mean), over the common denominator
DeviationsFrom(G, S) == [r \in DOMAIN G |-> Len(G) * G[r] - S]

Deviations(G) == DeviationsFrom(G, SumSeq(G))

\* mutant: the rows at or above the mean
AboveThreshold_Mean(d, SS) ==
    SelectSeq([r \in DOMAIN d |-> r], LAMBDA r : d[r] >= 0)

\* score > mean + gini_std_threshold * std_dev, with std_dev^2 = SS / R^3
AboveThreshold(d, SS) ==
    SelectSeq([r \in DOMAIN d |-> r],
        LAMBDA r : /\ d[r] > 0
                   /\ Len(d) * d[r] * d[r]
                        > GiniStdThreshold * GiniStdThreshold * SS)

KeepAboveThreshold(d) ==
    AboveThreshold(d, SumSeq([r \in DOMAIN d |-> d[r] * d[r]]))

\* selected_indices, 1-based
SelectedRows(target_vector) ==
    KeepAboveThreshold(Deviations(CommonNumerators(RowScores(target_vector))))

\* lines 59-60: both are indexed by selected_indices, which are row numbers
\* of target_vector
FilteredBy(target_vector, regions_bed, sel) ==
    [targets |-> SelectSeqBy(target_vector, sel),
     regions |-> SelectSeqBy(regions_bed, sel)]

FilterRegionsOnSpecificity(target_vector, regions_bed) ==
    FilteredBy(target_vector, regions_bed, SelectedRows(target_vector))

\* np.repeat(targets, 2, axis=0)
Repeat2(rows) == [k \in 1..(2 * Len(rows)) |-> rows[(k + 1) \div 2]]

(***************************************************************************)
(* CustomDataset.__init__, lines 94-125: the regions and the targets.      *)
(***************************************************************************)
GoalIndex(goal) ==
    CASE goal = "max" -> 1
      [] goal = "mean" -> 2
      [] goal = "count" -> 3
      [] goal = "logcount" -> 4

LoadedTargets(file, task, goal) ==
    IF task = "deeppeak"
    THEN IF Len(file) = 1 THEN file[1] ELSE file[GoalIndex(goal)]
    ELSE file

\* lines 115-118
MaybeFiltered(targets0, regions0, a) ==
    IF a.task = "deeppeak" /\ a.specificity_filtering
    THEN FilterRegionsOnSpecificity(targets0, regions0)
    ELSE [targets |-> targets0, regions |-> regions0]

\* lines 121-124
MaybeDoubled(filt, a) ==
    [all_regions |-> filt.regions,
     targets |-> IF a.reverse_complement
                 THEN Repeat2(filt.targets) ELSE filt.targets]

LoadData(file, tfile, a) ==
    MaybeDoubled(
        MaybeFiltered(LoadedTargets(tfile, a.task, a.target_goal),
                      LoadBedFile(file, a.reverse_complement), a), a)

\* lines 129-140: the check of chromsizes
ChromsizesError(a, regions) ==
    IF ~a.chromsizes_given
    THEN a.shift_n_bp > 0
    ELSE {regions[i].chrom : i \in DOMAIN regions} \ DOMAIN a.chromsizes # {}

(***************************************************************************)
(* CustomDataset._get_indices_for_set_type                                 *)
(***************************************************************************)
\* mutant: only the train list counts as used
OtherSets_TrainOnly(set_type) == {"train"} \ {set_type}

OtherSets(set_type) == {"train", "val", "test"} \ {set_type}

\* whether the call auto-selects, and the chromosomes it then selects
AutoSplits(sd, set_type) == set_type \in {"val", "test"} /\ Len(sd[set_type]) = 0

UsedChromosomes(sd, set_type) ==
    UNION {Range(sd[o]) : o \in OtherSets(set_type)}

AutoSelected(sd, set_type, regions) ==
    SelectChromosomesForSubset(regions, UsedChromosomes(sd, set_type))

\* the lists list(selected_chromosomes) may give in a call
AutoLists(sd, set_type, regions) ==
    IF AutoSplits(sd, set_type)
    THEN ListsOf(AutoSelected(sd, set_type, regions)) ELSE {<<>>}

\* line 258, aslist being list(selected_chromosomes)
WithAutoList(sd, set_type, aslist) ==
    IF AutoSplits(sd, set_type) THEN [sd EXCEPT ![set_type] = aslist] ELSE sd

\* mutant: the test chromosomes are not excluded from train
TrainExcluded_ValOnly(sd) == Range(sd.val)

\* lines 263-265
TrainExcluded(sd) == Range(sd.val \o sd.test)

\* selected_chromosomes, sd being split_dict after line 258
SelectedChromosomes(sd, set_type, regions) ==
    IF set_type = "train"
    THEN {regions[i].chrom : i \in DOMAIN regions} \ TrainExcluded(sd)
    ELSE Range(sd[set_type])

IndicesOf(regions, chroms) ==
    SelectSeq([k \in 1..Len(regions) |-> k - 1],
              LAMBDA i : regions[i + 1].chrom \in chroms)

\* mutant: the cut-off rounded down
Subsample_Floor(indices, fNum, fDen) ==
    IF fNum # fDen THEN Take(indices, FloorMul(Len(indices), fNum, fDen))
    ELSE indices

\* lines 274-275
Subsample(indices, fNum, fDen) ==
    IF fNum # fDen THEN Take(indices, CeilMul(Len(indices), fNum, fDen))
    ELSE indices

IndicesAndChroms(sd, selected, regions, fNum, fDen) ==
    [indices |-> Subsample(IndicesOf(regions, selected), fNum, fDen),
     chroms |-> selected,
     split_dict |-> sd]

SelectedIndices(sd, set_type, regions, fNum, fDen) ==
    IndicesAndChroms(sd, SelectedChromosomes(sd, set_type, regions),
                     regions, fNum, fDen)

\* mutant: when auto-selecting, the indices are gathered chromosome by
\* chromosome, in the order of list(selected_chromosomes)
GetIndicesForSetType_ByList(sd, set_type, regions, fNum, fDen, aslist) ==
    IF AutoSplits(sd, set_type)
    THEN [indices |->
            Subsample(Flatten([k \in DOMAIN aslist |->
                          IndicesOf(regions, {aslist[k]})]), fNum, fDen),
          chroms |-> Range(aslist),
          split_dict |-> WithAutoList(sd, set_type, aslist)]
    ELSE SelectedIndices(sd, set_type, regions, fNum, fDen)

\* aslist: the list that list(selected_chromosomes) gives when auto-selecting
GetIndicesForSetType(sd, set_type, regions, fNum, fDen, aslist) ==
    SelectedIndices(WithAutoList(sd, set_type, aslist), set_type, regions,
                    fNum, fDen)

(***************************************************************************)
(* CustomDataset.__init__ (split_dict-based).  The object after a          *)
(* ValueError of the chromsizes check has no indices, chroms or saved      *)
(* files: the constructor stopped before them.                             *)
(***************************************************************************)
\* lines 155-158: drop the regions that preprocessing added by shifting
DropPreShifted(indices, a) ==
    IF a.shift_augmentation_pre_used
    THEN SelectSeq(indices,
             LAMBDA i : i % (a.shift_augmentation_pre_used_n_shifts * 2 + 1) = 0)
    ELSE indices

\* lines 160-162: keep every other index of val and test
DropReverse(indices, a) ==
    IF a.reverse_complement THEN EveryOther(indices) ELSE indices

HeldOutIndices(indices, a) == DropReverse(DropPreShifted(indices, a), a)

\* self.targets[indices]
TargetsAt(targets, indices) ==
    SelectSeqBy(targets, [k \in DOMAIN indices |-> indices[k] + 1])

\* lines 174-196: what is written to output_dir
SavedFiles(data, indices, chroms) ==
    [chrom_mapping |-> chroms,
     region_split_ids |-> indices,
     targets |-> [s \in {"train", "val", "test"} |->
                    TargetsAt(data.targets, indices[s])],
     regions |-> data.all_regions]

Dataset(data, a, sd, indices, chroms) ==
    [pc |-> "done",
     all_regions |-> data.all_regions,
     targets |-> data.targets,
     split_dict |-> sd,
     indices |-> indices,
     chroms |-> chroms,
     saved |-> IF a.output_dir
               THEN <<SavedFiles(data, indices, chroms)>> ELSE <<>>]

\* lines 164-173, the lists of self.chroms being any enumeration of the sets
SetSplits(i, data, v, t, tr) ==
    \E cv \in ListsOf(v.chroms), ct \in ListsOf(t.chroms),
       ctr \in ListsOf(tr.chroms) :
        ds' = [ds EXCEPT ![i] =
                 Dataset(data, args, tr.split_dict,
                         [train |-> tr.indices,
                          val |-> HeldOutIndices(v.indices, args),
                          test |-> HeldOutIndices(t.indices, args)],
                         [train |-> ctr, val |-> cv, test |-> ct])]

\* lines 150-152
SplitTrain(i, data, v, t) ==
    SetSplits(i, data, v, t,
        GetIndicesForSetType(t.split_dict, "train", data.all_regions,
                             args.fNum, args.fDen, <<>>))

\* lines 147-149
SplitTest(i, data, v) ==
    \E lt \in AutoLists(v.split_dict, "test", data.all_regions) :
        SplitTrain(i, data, v,
            GetIndicesForSetType(v.split_dict, "test", data.all_regions,
                                 args.fNum, args.fDen, lt))

\* lines 144-146
SplitVal(i, data) ==
    \E lv \in AutoLists(args.split_dict, "val", data.all_regions) :
        SplitTest(i, data,
            GetIndicesForSetType(args.split_dict, "val", data.all_regions,
                                 args.fNum, args.fDen, lv))

CustomDatasetInit(i, data) ==
    IF ChromsizesError(args, data.all_regions)
    THEN ds' = [ds EXCEPT ![i] =
                  [pc |-> "ValueError", all_regions |-> data.all_regions,
                   targets |-> data.targets, split_dict |-> args.split_dict]]
    ELSE SplitVal(i, data)

Construct(i) ==
    /\ ds[i].pc = "new"
    /\ CustomDatasetInit(i, LoadData(bed, targetsFile, args))
    /\ UNCHANGED <<bed, genome, targetsFile, args, gen, sp, io, loader, cfgds>>

(***************************************************************************)
(* stochastic_shift_augment and CustomDataset.generator                    *)
(***************************************************************************)
\* mutant: the upper end of the range is not held below chromsize - end
ShiftRange_NoEndClamp(start, end, chromsize, shift_n_bp) ==
    (0 - Min(shift_n_bp, start)) .. (shift_n_bp - 1)

\* the values np.random.randint(low, high) can return: low <= shift < high
ShiftRange(start, end, chromsize, shift_n_bp) ==
    (0 - Min(shift_n_bp, start)) .. (Min(shift_n_bp, chromsize - end) - 1)

\* pyfaidx: genome[chrom][start:end], 0 <= start
Slice(seq, start, end) == SubSeq(seq, start + 1, Min(end, Len(seq)))

ComplementBase(b) ==
    CASE b = "A" -> "T"
      [] b = "T" -> "A"
      [] b = "C" -> "G"
      [] b = "G" -> "C"
      [] OTHER -> b

\* .complement of a pyfaidx Sequence: each base complemented, in place
Complement(seq) == [k \in DOMAIN seq |-> ComplementBase(seq[k])]

Reverse(seq) == [k \in DOMAIN seq |-> seq[Len(seq) + 1 - k]]

\* lines 218-223
StrandSequence(fasta, chrom, start, end, strand) ==
    IF strand = "+" THEN Slice(fasta[chrom], start, end)
    ELSE Complement(Slice(fasta[chrom], start, end))

Yielded(sample_idx, region, shift, target) ==
    [sample_idx |-> sample_idx,
     shift |-> shift,
     start |-> region.start + shift,
     end |-> region.end + shift,
     sequence |-> StrandSequence(genome, region.chrom, region.start + shift,
                                 region.end + shift, region.strand),
     target |-> target]

Yield(d, sample_idx, shift) ==
    Yielded(sample_idx, d.all_regions[sample_idx + 1], shift,
            d.targets[sample_idx + 1])

GenStart(i, split) ==
    /\ gen.pc = "idle"
    /\ ds[i].pc = "done"
    /\ gen' = [pc |-> "running", inst |-> i, split |-> split, pos |-> 0,
               out |-> <<>>]
    /\ UNCHANGED <<bed, genome, targetsFile, args, ds, sp, io, loader, cfgds>>

\* lines 208-225 with the shift drawn for every split
YieldSample_AnySplit(d, sample_idx, region) ==
    IF args.shift_n_bp > 0
    THEN IF ShiftRange(region.start, region.end,
                       args.chromsizes[region.chrom], args.shift_n_bp) = {}
         THEN gen' = [gen EXCEPT !.pc = "ValueError"]
         ELSE \E shift \in ShiftRange(region.start, region.end,
                               args.chromsizes[region.chrom], args.shift_n_bp) :
                gen' = [gen EXCEPT !.pos = gen.pos + 1,
                          !.out = <<Yield(d, sample_idx, shift)>>]
    ELSE gen' = [gen EXCEPT !.pos = gen.pos + 1,
                   !.out = <<Yield(d, sample_idx, 0)>>]

\* lines 208-225 for one sample: the shift drawn, then the yield
YieldSample(d, sample_idx, region) ==
    IF args.shift_n_bp > 0 /\ gen.split = "train"
    THEN IF ShiftRange(region.start, region.end,
                       args.chromsizes[region.chrom], args.shift_n_bp) = {}
         THEN gen' = [gen EXCEPT !.pc = "ValueError"]
         ELSE \E shift \in ShiftRange(region.start, region.end,
                               args.chromsizes[region.chrom], args.shift_n_bp) :
                gen' = [gen EXCEPT !.pos = gen.pos + 1,
                          !.out = <<Yield(d, sample_idx, shift)>>]
    ELSE gen' = [gen EXCEPT !.pos = gen.pos + 1,
                   !.out = <<Yield(d, sample_idx, 0)>>]

NextSample(d, sample_idx) ==
    YieldSample(d, sample_idx, d.all_regions[sample_idx + 1])

\* one iteration of the generator's loop
GenNext ==
    /\ gen.pc = "running"
    /\ IF gen.pos >= Len(ds[gen.inst].indices[gen.split])
       THEN gen' = [gen EXCEPT !.pc = "exhausted"]
       ELSE NextSample(ds[gen.inst],
                       ds[gen.inst].indices[gen.split][gen.pos + 1])
    /\ UNCHANGED <<bed, genome, targetsFile, args, ds, sp, io, loader, cfgds>>

(***************************************************************************)
(* stochastic_shift_augment, lines 384-392: the (start, end) pairs it can  *)
(* return; np.random.randint raises ValueError when low >= high.           *)
(***************************************************************************)
StochasticShiftAugment(start, end, chromsize, shift_n_bp) ==
    IF ShiftRange(start, end, chromsize, shift_n_bp) = {}
    THEN {[pc |-> "ValueError"]}
    ELSE {[pc |-> "ok", start |-> start + shift, end |-> end + shift] :
            shift \in ShiftRange(start, end, chromsize, shift_n_bp)}

(***************************************************************************)
(* GenomicRegionLoader, lines 452-478.  An object is the record of the     *)
(* attributes assigned so far; a call binds its positional arguments to    *)
(* the parameters of the def, and a body that reads an attribute the       *)
(* object does not have raises AttributeError.                             *)
(***************************************************************************)
NoAttributes == [a \in {} |-> 0]

\* line 462: def load_bed_file(self, reverse_complement: bool = False)
LoadBedFileParams == <<"self", "reverse_complement">>

LoadBedFileDefaults == 1

\* line 459: def load_genomic_data(self)
LoadGenomicDataParams == <<"self">>

LoadGenomicDataDefaults == 0

\* too many positional arguments, or too few for the parameters without a
\* default, raise TypeError before the body runs
Binds(params, defaults, nargs) ==
    nargs <= Len(params) /\ nargs >= Len(params) - defaults

\* lines 462-475, called with nargs positional arguments, self included
LoaderLoadBedFile(self, nargs) ==
    IF ~Binds(LoadBedFileParams, LoadBedFileDefaults, nargs)
    THEN [pc |-> "TypeError"]
    ELSE IF ~({"bed_file", "reverse_complement"} \subseteq DOMAIN self)
    THEN [pc |-> "AttributeError"]
    ELSE [pc |-> "ok",
          value |-> LoadBedFile(self.bed_file, self.reverse_complement)]

\* lines 459-460
LoaderLoadGenomicData(self, nargs) ==
    IF ~Binds(LoadGenomicDataParams, LoadGenomicDataDefaults, nargs)
    THEN [pc |-> "TypeError"]
    ELSE IF "genome_fasta_file" \notin DOMAIN self
    THEN [pc |-> "AttributeError"]
    ELSE [pc |-> "ok", value |-> self.genome_fasta_file]

\* line 457: self.genome = self.load_genomic_data(genome_fasta_file)
LoaderSetGenome(regions, call) ==
    IF call.pc # "ok" THEN [pc |-> call.pc]
    ELSE [pc |-> "done", regions |-> regions, genome |-> call.value]

\* line 456: self.regions = self.load_bed_file(bed_file, reverse_complement)
LoaderSetRegions(call) ==
    IF call.pc # "ok" THEN [pc |-> call.pc]
    ELSE LoaderSetGenome(call.value,
             LoaderLoadGenomicData([regions |-> call.value], 2))

\* lines 455-457: __init__ passes its arguments on to the two methods and
\* assigns none of them to self
GenomicRegionLoaderInit(bed_file, genome_fasta_file, reverse_complement) ==
    LoaderSetRegions(LoaderLoadBedFile(NoAttributes, 3))

\* lines 477-478
GetRegion(self, idx) == self.regions[idx + 1]

\* lines 480-486
GetSequence(self, chrom, start, end, strand) ==
    StrandSequence(self.genome, chrom, start, end, strand)

ConstructLoader ==
    /\ loader.pc = "new"
    /\ loader' = GenomicRegionLoaderInit(bed, genome, args.reverse_complement)
    /\ UNCHANGED <<bed, genome, targetsFile, args, ds, gen, sp, io, cfgds>>

(***************************************************************************)
(* The config-based CustomDataset, lines 395-425.                          *)
(***************************************************************************)
\* load_targets, lines 346-381
LoadTargets(file, task, target_goal, reverse_complement) ==
    IF reverse_complement
    THEN Repeat2(LoadedTargets(file, task, target_goal))
    ELSE LoadedTargets(file, task, target_goal)

\* lines 422-425
ConfigFiltered(targets, regionloader, config) ==
    IF config.specificity_filtering
    THEN [pc |-> "done",
          targets |->
              FilterRegionsOnSpecificity(targets, regionloader.regions).targets,
          regionloader |->
              [regionloader EXCEPT !.regions =
                  FilterRegionsOnSpecificity(targets,
                                             regionloader.regions).regions]]
    ELSE [pc |-> "done", targets |-> targets, regionloader |-> regionloader]

\* lines 403-425: the loader first, then the targets, then the chromsizes
\* check
ConfigDatasetInit(config, regionloader, tfile) ==
    IF regionloader.pc # "done" THEN [pc |-> regionloader.pc]
    ELSE IF ~config.chromsizes_given /\ config.shift_n_bp > 0
    THEN [pc |-> "ValueError"]
    ELSE ConfigFiltered(
             LoadTargets(tfile, config.task, config.target_goal,
                         config.reverse_complement),
             regionloader, config)

ConstructFromConfig ==
    /\ cfgds.pc = "new"
    /\ cfgds' = ConfigDatasetInit(args,
                    GenomicRegionLoaderInit(bed, genome,
                                            args.reverse_complement),
                    targetsFile)
    /\ UNCHANGED <<bed, genome, targetsFile, args, ds, gen, sp, io, loader>>

(***************************************************************************)
(* Inputs.                                                                 *)
(***************************************************************************)
Line(chrom, start, end) ==
    [comment |-> FALSE, chrom |-> chrom, start |-> start, end |-> end]

CommentLine == [comment |-> TRUE, chrom |-> "#", start |-> 0, end |-> 0]

\* runs of lines on one chromosome, neighbouring runs on different ones
BlockSeqs ==
    {blocks \in UNION {[1..n -> Chroms \X BlockSizes] : n \in 1..MaxBlocks} :
        \A b \in 1..(Len(blocks) - 1) : blocks[b][1] # blocks[b + 1][1]}

\* a BED file made of such runs
BlockBeds ==
    {Flatten([b \in DOMAIN blocks |->
                [k \in 1..blocks[b][2] |-> Line(blocks[b][1], 0, 1)]]) :
        blocks \in BlockSeqs}

\* a deeptopic target array: one row per BED line that is not a comment
PlainTargets(file) ==
    SelectSeq([k \in DOMAIN file |-> [line |-> k, vals |-> <<0, 1>>]],
              LAMBDA row : ~file[row.line].comment)

NoChromsizes == [c \in {} |-> 0]

DefaultArgs ==
    [task |-> "deeptopic", target_goal |-> "max",
     split_dict |-> [train |-> <<>>, val |-> <<>>, test |-> <<>>],
     shift_n_bp |-> 0, fNum |-> 1, fDen |-> 1, output_dir |-> FALSE,
     chromsizes_given |-> FALSE, chromsizes |-> NoChromsizes,
     reverse_complement |-> FALSE, specificity_filtering |-> FALSE,
     shift_augmentation_pre_used |-> FALSE,
     shift_augmentation_pre_used_n_shifts |-> 2]

NoGenome == [c \in {} |-> <<>>]
IdleGen == [pc |-> "idle"]

\* split_dict arguments: both lists empty, one explicit, both explicit
\* (apart and overlapping), and a "train" entry
SplitDicts ==
    {[train |-> <<>>, val |-> <<>>, test |-> <<>>],
     [train |-> <<>>, val |-> <<>>, test |-> <<"chr1">>],
     [train |-> <<>>, val |-> <<"chr1">>, test |-> <<>>],
     [train |-> <<>>, val |-> <<"chr1", "chr2">>, test |-> <<"chr3">>],
     [train |-> <<>>, val |-> <<"chr1">>, test |-> <<"chr1", "chr3">>],
     [train |-> <<"chr2">>, val |-> <<>>, test |-> <<>>]}

(***************************************************************************)
(* SpecSplit: constructions that differ in the chromosomes of the regions, *)
(* the split_dict, fraction_of_data and reverse_complement.                *)
(***************************************************************************)
InitSplit ==
    /\ bed \in BlockBeds
    /\ genome = NoGenome
    /\ targetsFile = PlainTargets(bed)
    /\ \E sd \in SplitDicts, f \in 1..FracDen, rc \in BOOLEAN :
          args = [DefaultArgs EXCEPT
                    !.split_dict = sd,
                    !.fNum = f, !.fDen = FracDen,
                    !.reverse_complement = rc]
    /\ ds = [i \in Inst |-> IF i = 1 THEN [pc |-> "new"] ELSE Off]
    /\ gen = IdleGen
    /\ sp = Off
    /\ io = Off
    /\ loader = Off
    /\ cfgds = Off

NextConstruct == \E i \in Inst : Construct(i)

SpecSplit == InitSplit /\ [][NextConstruct]_vars

\* SpecSelect: constructions that select val or test automatically, over the
\* whole of the data
InitSelect ==
    /\ bed \in BlockBeds
    /\ genome = NoGenome
    /\ targetsFile = PlainTargets(bed)
    /\ \E sd \in {d \in SplitDicts : d.val = <<>> \/ d.test = <<>>},
          rc \in BOOLEAN :
          args = [DefaultArgs EXCEPT
                    !.split_dict = sd, !.reverse_complement = rc]
    /\ ds = [i \in Inst |-> IF i = 1 THEN [pc |-> "new"] ELSE Off]
    /\ gen = IdleGen
    /\ sp = Off
    /\ io = Off
    /\ loader = Off
    /\ cfgds = Off

SpecSelect == InitSelect /\ [][NextConstruct]_vars

(***************************************************************************)
(* SpecTwin: two constructions from the same arguments (each with a        *)
(* split_dict of its own, of the same contents).                           *)
(***************************************************************************)
TwinBeds ==
    {Flatten([b \in DOMAIN blocks |->
                [k \in 1..blocks[b][2] |-> Line(blocks[b][1], 0, 1)]]) :
        blocks \in {q \in BlockSeqs : \A b \in DOMAIN q : q[b][2] # 3}}

InitTwin ==
    /\ bed \in TwinBeds
    /\ genome = NoGenome
    /\ targetsFile = PlainTargets(bed)
    /\ \E sd \in {d \in SplitDicts : d.val = <<>> \/ d.test = <<>>},
          f \in {1, FracDen}, rc \in BOOLEAN, pre \in BOOLEAN :
          args = [DefaultArgs EXCEPT
                    !.split_dict = sd,
                    !.fNum = f, !.fDen = FracDen,
                    !.reverse_complement = rc,
                    !.shift_augmentation_pre_used = pre]
    /\ ds = [i \in Inst |-> [pc |-> "new"]]
    /\ gen = IdleGen
    /\ sp = Off
    /\ io = Off
    /\ loader = Off
    /\ cfgds = Off

SpecTwin == InitTwin /\ [][NextConstruct]_vars

(***************************************************************************)
(* SpecGen: constructions over a small genome, then the generator run over *)
(* a split.  Every region lies within its chromosome.                      *)
(***************************************************************************)
GenGenome ==
    [c \in {"chr1", "chr2"} |->
        IF c = "chr1" THEN <<"A", "C", "G">> ELSE <<"T", "N">>]

GenomeSizes(fasta) == [c \in DOMAIN fasta |-> Len(fasta[c])]

GenLines ==
    {Line("chr1", s, e) : s \in 0..2, e \in 1..3} \cup {Line("chr2", s, 2) : s \in 0..1}

GenBeds ==
    {b \in UNION {[1..n -> GenLines] : n \in 1..MaxGenLines} :
        \A k \in DOMAIN b : b[k].start < b[k].end}

\* chromsizes: None, the sizes of the genome, or those without chr2
ChromsizesArgs ==
    {[given |-> FALSE, sizes |-> NoChromsizes],
     [given |-> TRUE, sizes |-> GenomeSizes(GenGenome)],
     [given |-> TRUE, sizes |-> [c \in {"chr1"} |-> Len(GenGenome[c])]]}

InitGen ==
    /\ bed \in GenBeds
    /\ genome = GenGenome
    /\ targetsFile = PlainTargets(bed)
    /\ \E sd \in {d \in SplitDicts : d.train = <<>>},
          n \in 0..MaxShift, rc \in BOOLEAN, cs \in ChromsizesArgs :
          args = [DefaultArgs EXCEPT
                    !.split_dict = sd,
                    !.shift_n_bp = n,
                    !.chromsizes_given = cs.given, !.chromsizes = cs.sizes,
                    !.reverse_complement = rc]
    /\ ds = [i \in Inst |-> IF i = 1 THEN [pc |-> "new"] ELSE Off]
    /\ gen = IdleGen
    /\ sp = Off
    /\ io = Off
    /\ loader = Off
    /\ cfgds = Off

NextDataset ==
    \/ \E i \in Inst : Construct(i)
    \/ \E i \in Inst, split \in {"train", "val", "test"} : GenStart(i, split)
    \/ GenNext

SpecGen == InitGen /\ [][NextDataset]_vars

(***************************************************************************)
(* SpecConfig: the three constructors on the same files and arguments:     *)
(* the split_dict-based CustomDataset, the config-based CustomDataset and  *)
(* GenomicRegionLoader.                                                    *)
(***************************************************************************)
InitConfig ==
    /\ bed \in GenBeds
    /\ genome = GenGenome
    /\ targetsFile = PlainTargets(bed)
    /\ \E sd \in {d \in SplitDicts : d.train = <<>> /\ d.test = <<>>},
          n \in 0..MaxShift, rc \in BOOLEAN, cs \in ChromsizesArgs :
          args = [DefaultArgs EXCEPT
                    !.split_dict = sd,
                    !.shift_n_bp = n,
                    !.chromsizes_given = cs.given, !.chromsizes = cs.sizes,
                    !.reverse_complement = rc]
    /\ ds = [i \in Inst |-> IF i = 1 THEN [pc |-> "new"] ELSE Off]
    /\ gen = IdleGen
    /\ sp = Off
    /\ io = Off
    /\ loader = [pc |-> "new"]
    /\ cfgds = [pc |-> "new"]

NextConfig ==
    \/ \E i \in Inst : Construct(i)
    \/ ConstructFromConfig
    \/ ConstructLoader

SpecConfig == InitConfig /\ [][NextConfig]_vars

(***************************************************************************)
(* SpecAlign: constructions that differ in the task, the targets,          *)
(* reverse_complement and specificity_filtering.                           *)
(***************************************************************************)
RowVals == {<<1, 1>>, <<0, 2>>, <<-1, 1>>}

AlignBeds ==
    UNION {[1..n -> {Line("chr1", 0, 1), Line("chr2", 0, 1), CommentLine}] :
              n \in 1..MaxLines}

\* target rows, one per BED line that is not a comment
TargetRows(file) ==
    {SelectSeq([k \in DOMAIN file |-> [line |-> k, vals |-> v[k]]],
               LAMBDA row : ~file[row.line].comment) :
        v \in [DOMAIN file -> RowVals]}

\* a row of equal values
Flat(rows) == [k \in DOMAIN rows |-> [rows[k] EXCEPT !.vals = <<1, 1>>]]

\* the targets array and the arguments that read it: a deeptopic array, or a
\* deeppeak array of one or of four target types
TargetArgs(rows) ==
    {[task |-> "deeptopic", goal |-> "max", file |-> rows],
     [task |-> "deeppeak", goal |-> "max", file |-> <<rows>>],
     [task |-> "deeppeak", goal |-> "max", file |-> <<rows, Flat(rows), rows, rows>>],
     [task |-> "deeppeak", goal |-> "mean", file |-> <<rows, Flat(rows), rows, rows>>]}

InitAlign ==
    /\ bed \in AlignBeds
    /\ genome = NoGenome
    /\ \E rows \in TargetRows(bed) :
         \E t \in TargetArgs(rows), rc \in BOOLEAN, sf \in BOOLEAN :
            /\ targetsFile = t.file
            /\ args = [DefaultArgs EXCEPT
                         !.task = t.task, !.target_goal = t.goal,
                         !.reverse_complement = rc,
                         !.specificity_filtering = sf]
    /\ ds = [i \in Inst |-> IF i = 1 THEN [pc |-> "new"] ELSE Off]
    /\ gen = IdleGen
    /\ sp = Off
    /\ io = Off
    /\ loader = Off
    /\ cfgds = Off

SpecAlign == InitAlign /\ [][NextConstruct]_vars

\* SpecStrand: constructions that differ in reverse_complement, the
\* fraction of the data and the shift_augmentation_pre_used settings
StrandBeds ==
    UNION {[1..n -> {Line("chr1", 0, 1), Line("chr2", 0, 1)}] : n \in 1..MaxLines}

InitStrand ==
    /\ bed \in StrandBeds
    /\ genome = NoGenome
    /\ targetsFile = PlainTargets(bed)
    /\ \E sd \in SplitDicts, f \in 1..FracDen, rc \in BOOLEAN,
          pre \in BOOLEAN, n_shifts \in 1..2 :
          args = [DefaultArgs EXCEPT
                    !.split_dict = sd,
                    !.fNum = f, !.fDen = FracDen,
                    !.reverse_complement = rc,
                    !.shift_augmentation_pre_used = pre,
                    !.shift_augmentation_pre_used_n_shifts = n_shifts]
    /\ ds = [i \in Inst |-> IF i = 1 THEN [pc |-> "new"] ELSE Off]
    /\ gen = IdleGen
    /\ sp = Off
    /\ io = Off
    /\ loader = Off
    /\ cfgds = Off

SpecStrand == InitStrand /\ [][NextConstruct]_vars

\* SpecFilter: deeppeak constructions with specificity_filtering over files
\* long enough for the filter to keep more than one region
FilterBeds == {[k \in 1..n |-> Line("chr1", 0, 1)] : n \in 1..MaxRows}

InitFilter ==
    /\ bed \in FilterBeds
    /\ genome = NoGenome
    /\ \E rows \in TargetRows(bed) :
         \E t \in {x \in TargetArgs(rows) : x.task = "deeppeak"}, rc \in BOOLEAN :
            /\ targetsFile = t.file
            /\ args = [DefaultArgs EXCEPT
                         !.task = t.task, !.target_goal = t.goal,
                         !.reverse_complement = rc,
                         !.specificity_filtering = TRUE]
    /\ ds = [i \in Inst |-> IF i = 1 THEN [pc |-> "new"] ELSE Off]
    /\ gen = IdleGen
    /\ sp = Off
    /\ io = Off
    /\ loader = Off
    /\ cfgds = Off

SpecFilter == InitFilter /\ [][NextConstruct]_vars

(***************************************************************************)
(* DatasetSplitter.                                                        *)
(***************************************************************************)
\* split_config.get(key, default)
Get(config, key, default) ==
    IF key \in DOMAIN config THEN config[key] ELSE default

DefaultTrainFraction == [num |-> 7, den |-> 10]
DefaultValFraction == [num |-> 15, den |-> 100]

\* the branch of the if / elif chain that a region takes
SubsetOfRegion(region, config) ==
    IF region.chrom \in Range(Get(config, "train", <<>>)) THEN "train"
    ELSE IF region.chrom \in Range(Get(config, "val", <<>>)) THEN "val"
    ELSE IF region.chrom \in Range(Get(config, "test", <<>>)) THEN "test"
    ELSE "none"

IndicesInSubset(regions, config, key) ==
    SelectSeq([k \in 1..Len(regions) |-> k - 1],
              LAMBDA i : SubsetOfRegion(regions[i + 1], config) = key)

\* indices[key][:cutoff] when fraction_of_data != 1.0
Cutoff(indices, fraction) ==
    IF fraction.num # fraction.den
    THEN Take(indices, FloorMul(Len(indices), fraction.num, fraction.den))
    ELSE indices

SplitByChromosome(regions, config, fraction) ==
    [key \in {"train", "val", "test"} |->
        Cutoff(IndicesInSubset(regions, config, key), fraction)]

\* mutant: the validation slice taken from the start of the shuffle
RandomIndices_ValFromStart(total_indices, num_train, num_val) ==
    [train |-> Take(total_indices, num_train),
     val |-> Take(total_indices, num_val),
     test |-> Slice(total_indices, num_train + num_val, Len(total_indices))]

RandomIndices(total_indices, num_train, num_val) ==
    [train |-> Take(total_indices, num_train),
     val |-> Slice(total_indices, num_train, num_train + num_val),
     test |-> Slice(total_indices, num_train + num_val, Len(total_indices))]

NumOf(n, fraction) == FloorMul(n, fraction.num, fraction.den)

\* np.random.shuffle leaves any order of 0 .. n-1
SplitRandomly(regions, config) ==
    {RandomIndices(total_indices,
                   NumOf(Len(regions), Get(config, "train_fraction", DefaultTrainFraction)),
                   NumOf(Len(regions), Get(config, "val_fraction", DefaultValFraction))) :
        total_indices \in ListsOf(0..(Len(regions) - 1))}

NoIndices == [key \in {"train", "val", "test"} |-> <<>>]

SplitOutcomes(regions, config, fraction) ==
    IF Get(config, "strategy", "None") = "chromosome"
    THEN {SplitByChromosome(regions, config, fraction)}
    ELSE IF Get(config, "strategy", "None") = "random"
    THEN SplitRandomly(regions, config)
    ELSE {NoIndices}

\* DatasetSplitter(regions, split_config, fraction_of_data)
SplitDatasets ==
    /\ sp.pc = "new"
    /\ \E indices \in SplitOutcomes(sp.regions, sp.split_config, sp.fraction_of_data) :
          sp' = [pc |-> "done", regions |-> sp.regions,
                 split_config |-> sp.split_config,
                 fraction_of_data |-> sp.fraction_of_data,
                 indices |-> indices]
    /\ UNCHANGED <<bed, genome, targetsFile, args, ds, gen, io, loader, cfgds>>

(***************************************************************************)
(* SpecSplitter: DatasetSplitter over short region lists.                  *)
(***************************************************************************)
SplitterRegions ==
    UNION {[1..n -> {[chrom |-> c, start |-> 0, end |-> 1, strand |-> "+"] :
                        c \in {"chr1", "chr2"}}] : n \in 0..MaxRegions}

Fractions ==
    {f \in [num : 0..FracDen, den : 1..FracDen] :
        f.num <= f.den /\ Gcd(f.num, f.den) = 1}

ChromLists == {<<>>, <<"chr1">>, <<"chr2">>, <<"chr1", "chr2">>}

RandomConfigs ==
    {[strategy |-> "random"]}
    \cup {[strategy |-> "random", train_fraction |-> t] : t \in Fractions}
    \cup {[strategy |-> "random", val_fraction |-> v] : v \in Fractions}
    \cup {[strategy |-> "random", train_fraction |-> t, val_fraction |-> v] :
             t \in Fractions, v \in Fractions}

ChromosomeConfigs ==
    {[strategy |-> "chromosome", train |-> tr, val |-> v, test |-> t] :
        tr \in ChromLists, v \in ChromLists, t \in ChromLists}

SplitConfigs ==
    RandomConfigs \cup ChromosomeConfigs \cup {[strategy |-> "kfold"], <<>>}

InitSplitter ==
    /\ bed = <<>>
    /\ genome = NoGenome
    /\ targetsFile = <<>>
    /\ args = DefaultArgs
    /\ ds = [i \in Inst |-> Off]
    /\ gen = IdleGen
    /\ \E regions \in SplitterRegions, config \in SplitConfigs, f \in Fractions :
          /\ Get(config, "strategy", "None") \notin {"chromosome", "random"}
                => f.num = f.den
          /\ Get(config, "strategy", "None") = "random"
                => \A k \in DOMAIN regions : regions[k].chrom = "chr1"
          /\ sp = [pc |-> "new", regions |-> regions, split_config |-> config,
                   fraction_of_data |-> f]
    /\ io = Off
    /\ loader = Off
    /\ cfgds = Off

SpecSplitter == InitSplitter /\ [][SplitDatasets]_vars

(***************************************************************************)
(* import_topics.  Strings that the code builds or takes apart are         *)
(* sequences of characters.                                                *)
(***************************************************************************)
DigitChars == <<"0", "1", "2", "3", "4", "5", "6", "7", "8", "9">>

RECURSIVE Digits(_)
Digits(n) ==
    IF n < 10 THEN <<DigitChars[n + 1]>>
    ELSE Digits(n \div 10) \o <<DigitChars[(n % 10) + 1]>>

\* astype(str) of an integer column
Str(n) == IF n < 0 THEN <<"-">> \o Digits(-n) ELSE Digits(n)

DigitValue(c) == CHOOSE d \in 0..9 : DigitChars[d + 1] = c

\* astype(int) of a string of digits
RECURSIVE ParseInt(_)
ParseInt(str) ==
    IF Len(str) = 1 THEN DigitValue(str[1])
    ELSE 10 * ParseInt(SubSeq(str, 1, Len(str) - 1)) + DigitValue(str[Len(str)])

FirstSep(str, sep) ==
    CHOOSE k \in DOMAIN str : str[k] = sep /\ \A j \in 1..(k - 1) : str[j] # sep

\* str.split(sep)
RECURSIVE StrSplit(_, _)
StrSplit(str, sep) ==
    IF \A k \in DOMAIN str : str[k] # sep THEN <<str>>
    ELSE <<SubSeq(str, 1, FirstSep(str, sep) - 1)>>
         \o StrSplit(SubSeq(str, FirstSep(str, sep) + 1, Len(str)), sep)

\* mutant: the start written in place of the end
RegionKey_StartTwice(chrom, start, end) ==
    chrom \o <<":">> \o Str(start) \o <<"-">> \o Str(start)

\* column 0 + ":" + column 1 + "-" + column 2
RegionKey(chrom, start, end) ==
    chrom \o <<":">> \o Str(start) \o <<"-">> \o Str(end)

\* the input checks, in their order
InputMissing(a) ==
    IF ~a.topics_folder.is_dir THEN TRUE
    ELSE IF ~a.regions_file.is_file THEN TRUE
    ELSE IF a.chromsizes_file.given /\ ~a.chromsizes_file.is_file THEN TRUE
    ELSE /\ a.topics_subset.given
         /\ \E topic \in Range(a.topics_subset.list) :
               topic \notin DOMAIN a.topics_folder.files

\* the consensus regions with their "region" column; peak is the line read
ConsensusPeaks(lines) ==
    [k \in DOMAIN lines |->
        [peak |-> lines[k],
         region |-> RegionKey(lines[k].chrom, lines[k].start, lines[k].end)]]

\* mutant: the end is not compared with the chromosome size
ValidPeak_EndUnchecked(row, chromsizes_dict) ==
    /\ row.peak.chrom \in DOMAIN chromsizes_dict
    /\ row.peak.start >= 0

ValidPeak(row, chromsizes_dict) ==
    /\ row.peak.chrom \in DOMAIN chromsizes_dict
    /\ row.peak.start >= 0
    /\ row.peak.end <= chromsizes_dict[row.peak.chrom]

WithinChromosomes(a, consensus_peaks) ==
    IF a.chromsizes_file.given
    THEN SelectSeq(consensus_peaks,
                   LAMBDA row : ValidPeak(row, a.chromsizes_file.sizes))
    ELSE consensus_peaks

\* file names in sorted order
TopicOrder == <<"Topic_1", "Topic_2">>

\* mutant: one row per name of topics_subset, in the order of that list
IncludedTopics_SubsetOrder(a) ==
    IF a.topics_subset.given
    THEN SelectSeq(a.topics_subset.list,
                   LAMBDA t : t \in DOMAIN a.topics_folder.files)
    ELSE SelectSeq(TopicOrder, LAMBDA t : t \in DOMAIN a.topics_folder.files)

\* the stems of sorted(glob("*.bed")) that pass the subset test
IncludedTopics(a) ==
    SelectSeq(TopicOrder,
              LAMBDA t : /\ t \in DOMAIN a.topics_folder.files
                         /\ a.topics_subset.given => t \in Range(a.topics_subset.list))

TopicRegions(topic_peaks) ==
    {RegionKey(topic_peaks[k].chrom, topic_peaks[k].start, topic_peaks[k].end) :
        k \in DOMAIN topic_peaks}

\* binary_matrix.columns.isin(topic_peaks["region"]).astype(int)
BinaryRow(columns, topic_peaks) ==
    [j \in DOMAIN columns |->
        IF columns[j].region \in TopicRegions(topic_peaks) THEN 1 ELSE 0]

BinaryMatrix(a, columns) ==
    [t \in Range(IncludedTopics(a)) |-> BinaryRow(columns, a.topics_folder.files[t])]

ColumnSum(X, j) == SumSeq([k \in 1..Len(TopicOrder) |->
                              IF TopicOrder[k] \in DOMAIN X THEN X[TopicOrder[k]][j]
                              ELSE 0])

\* str(topic_file) of a file of the folder
PathOf(stem) == [stem |-> stem, suffix |-> ".bed"]

\* topic_file_paths, appended to once per row
TopicFilePaths(a) ==
    [i \in DOMAIN IncludedTopics(a) |-> PathOf(IncludedTopics(a)[i])]

\* the obs columns, assigned by row position
Obs(a, X) ==
    [i \in DOMAIN IncludedTopics(a) |->
        [file_path |-> TopicFilePaths(a)[i],
         n_open_regions |-> SumSeq(X[IncludedTopics(a)[i]])]]

Var(columns, X) ==
    [j \in DOMAIN columns |->
        [region |-> columns[j].region,
         peak |-> columns[j].peak,
         n_topics |-> ColumnSum(X, j),
         chr |-> StrSplit(columns[j].region, ":")[1],
         start |-> ParseInt(StrSplit(StrSplit(columns[j].region, ":")[2], "-")[1]),
         end |-> ParseInt(StrSplit(StrSplit(columns[j].region, ":")[2], "-")[2])]]

\* the rows of the data frame as an array, in the order they were added
DenseRows(a, X) == [i \in DOMAIN IncludedTopics(a) |-> X[IncludedTopics(a)[i]]]

\* 0-based column numbers of the non-zero cells of a row
NonZeroColumns(row) ==
    SelectSeq([j \in 1..Len(row) |-> j - 1], LAMBDA c : row[c + 1] # 0)

\* indptr of a CSR matrix whose rows hold the given column numbers
RowPointers(index_rows) ==
    [i \in 1..(Len(index_rows) + 1) |->
        SumSeq([k \in 1..(i - 1) |-> Len(index_rows[k])])]

\* a CSR matrix from the column numbers and the values of each row
Csr(index_rows, data_rows, n_columns) ==
    [shape |-> <<Len(index_rows), n_columns>>,
     indptr |-> RowPointers(index_rows),
     indices |-> Flatten(index_rows),
     data |-> Flatten(data_rows)]

\* mutant: only the first non-zero cell of each row is stored
CsrMatrix_FirstCellOnly(rows, n_columns) ==
    Csr([i \in DOMAIN rows |-> Take(NonZeroColumns(rows[i]), 1)],
        [i \in DOMAIN rows |->
            [k \in DOMAIN Take(NonZeroColumns(rows[i]), 1) |->
                rows[i][NonZeroColumns(rows[i])[k] + 1]]],
        n_columns)

\* csr_matrix(X) of a dense array
CsrMatrix(rows, n_columns) ==
    Csr([i \in DOMAIN rows |-> NonZeroColumns(rows[i])],
        [i \in DOMAIN rows |->
            [k \in DOMAIN NonZeroColumns(rows[i]) |->
                rows[i][NonZeroColumns(rows[i])[k] + 1]]],
        n_columns)

\* AnnData(binary_matrix) with its obs and var columns; X is a dense array
\* of rows or, with compress, a CSR matrix
MakeAnnData(a, columns, X) ==
    [X |-> IF a.compress THEN CsrMatrix(DenseRows(a, X), Len(columns))
           ELSE DenseRows(a, X),
     obs_names |-> IncludedTopics(a),
     obs |-> Obs(a, X),
     var |-> Var(columns, X),
     sparse |-> a.compress]

\* mutant: every column is kept
KeptColumns_All(a, var) == [j \in 1..Len(var) |-> j]

\* the columns that ann_data[:, n_topics > 0] keeps
KeptColumns(a, var) ==
    SelectSeq([j \in 1..Len(var) |-> j],
              LAMBDA j : a.remove_no_topics => var[j].n_topics > 0)

\* the places in indices and data of the cells of row i that lie in cols
KeptPlaces(csr, i, cols) ==
    SelectSeq([k \in 1..(csr.indptr[i + 1] - csr.indptr[i]) |-> csr.indptr[i] + k],
              LAMBDA p : csr.indices[p] + 1 \in Range(cols))

PlaceIn(cols, c) == CHOOSE k \in DOMAIN cols : cols[k] = c

\* the columns cols of a CSR matrix, renumbered
CsrColumns(csr, cols) ==
    Csr([i \in 1..csr.shape[1] |->
            [k \in DOMAIN KeptPlaces(csr, i, cols) |->
                PlaceIn(cols, csr.indices[KeptPlaces(csr, i, cols)[k]] + 1) - 1]],
        [i \in 1..csr.shape[1] |->
            [k \in DOMAIN KeptPlaces(csr, i, cols) |->
                csr.data[KeptPlaces(csr, i, cols)[k]]]],
        Len(cols))

ColumnSubset(ann_data, cols) ==
    [ann_data EXCEPT
        !.X = IF ann_data.sparse THEN CsrColumns(ann_data.X, cols)
              ELSE [i \in DOMAIN ann_data.X |-> SelectSeqBy(ann_data.X[i], cols)],
        !.var = SelectSeqBy(ann_data.var, cols)]

\* the output checks
OutputChecked(a, ann_data) ==
    IF \E t \in DOMAIN ann_data.obs : ann_data.obs[t].n_open_regions = 0
    THEN [a EXCEPT !.pc = "ValueError"]
    ELSE [a EXCEPT !.pc = "returned",
                   !.result = ColumnSubset(ann_data, KeptColumns(a, ann_data.var))]

\* int() accepts a non-empty string of digits
IsInt(str) == str # <<>> /\ \A k \in DOMAIN str : str[k] \in Range(DigitChars)

\* .str[k] of a split followed by astype(int): a missing or empty piece fails
PieceIsInt(pieces, k) == k \in DOMAIN pieces /\ IsInt(pieces[k])

CoordinatesParse(region) ==
    /\ 2 \in DOMAIN StrSplit(region, ":")
    /\ PieceIsInt(StrSplit(StrSplit(region, ":")[2], "-"), 1)
    /\ PieceIsInt(StrSplit(StrSplit(region, ":")[2], "-"), 2)

\* astype(int) raises ValueError when the start or end of a column label
\* does not parse
MatrixOver(a, columns) ==
    IF \E j \in DOMAIN columns : ~CoordinatesParse(columns[j].region)
    THEN [a EXCEPT !.pc = "ValueError"]
    ELSE OutputChecked(a, MakeAnnData(a, columns, BinaryMatrix(a, columns)))

\* the first name of topics_subset without a file in the folder
FirstMissingTopic(a) ==
    a.topics_subset.list[
        CHOOSE k \in DOMAIN a.topics_subset.list :
            /\ a.topics_subset.list[k] \notin DOMAIN a.topics_folder.files
            /\ \A j \in 1..(k - 1) :
                  a.topics_subset.list[j] \in DOMAIN a.topics_folder.files]

\* mutant: the regions file is looked for before the topics folder
InputError_RegionsFirst(a) ==
    IF ~a.regions_file.is_file
    THEN [what |-> "File", name |-> "regions_file"]
    ELSE IF ~a.topics_folder.is_dir
    THEN [what |-> "Directory", name |-> "topics_folder"]
    ELSE IF a.chromsizes_file.given /\ ~a.chromsizes_file.is_file
    THEN [what |-> "File", name |-> "chromsizes_file"]
    ELSE [what |-> "Topic", name |-> FirstMissingTopic(a)]

\* what the FileNotFoundError names, for inputs with InputMissing
InputError(a) ==
    IF ~a.topics_folder.is_dir
    THEN [what |-> "Directory", name |-> "topics_folder"]
    ELSE IF ~a.regions_file.is_file
    THEN [what |-> "File", name |-> "regions_file"]
    ELSE IF a.chromsizes_file.given /\ ~a.chromsizes_file.is_file
    THEN [what |-> "File", name |-> "chromsizes_file"]
    ELSE [what |-> "Topic", name |-> FirstMissingTopic(a)]

\* the files that pd.read_csv reads, in the order of the calls
FilesRead(a) ==
    <<"regions_file">>
    \o (IF a.chromsizes_file.given THEN <<"chromsizes_file">> ELSE <<>>)
    \o IncludedTopics(a)

ImportTopicsOutcome(a) ==
    IF InputMissing(a)
    THEN [a EXCEPT !.pc = "FileNotFoundError", !.error = InputError(a)]
    ELSE [MatrixOver(a, WithinChromosomes(a, ConsensusPeaks(a.regions_file.lines)))
             EXCEPT !.reads = FilesRead(a)]

\* import_topics(topics_folder, regions_file, chromsizes_file, topics_subset,
\*               remove_no_topics, compress)
ImportTopics ==
    /\ io.pc = "new"
    /\ io' = ImportTopicsOutcome(io)
    /\ UNCHANGED <<bed, genome, targetsFile, args, ds, gen, sp, loader,
                 cfgds>>

\* the call repeated on the same inputs with the other value of compress,
\* the earlier result kept aside
ImportTopicsAgain ==
    /\ io.pc = "returned"
    /\ ~io.previous.given
    /\ io' = ImportTopicsOutcome(
                [io EXCEPT !.pc = "new", !.compress = ~io.compress,
                           !.result = <<>>, !.reads = <<>>,
                           !.previous = [given |-> TRUE, result |-> io.result]])
    /\ UNCHANGED <<bed, genome, targetsFile, args, ds, gen, sp, loader,
                 cfgds>>

(***************************************************************************)
(* SpecTopics: import_topics over small folders.                           *)
(***************************************************************************)
Chr_c == <<"c">>
Chr_c1 == <<"c", "1">>

Peak(chrom, start, end) == [chrom |-> chrom, start |-> start, end |-> end]

\* lines of topic files, in file order
TopicLineOrder == <<Peak(Chr_c, 1, 11), Peak(Chr_c, 1, 12), Peak(Chr_c1, 0, 1)>>

PeakLines == Range(TopicLineOrder) \cup {Peak(Chr_c, -1, 11)}

TopicFileContents ==
    {SelectSeq(TopicLineOrder, LAMBDA l : l \in S) :
        S \in (SUBSET Range(TopicLineOrder)) \ {{}}}

TopicsFolders ==
    {[is_dir |-> FALSE]}
    \cup {[is_dir |-> TRUE, files |-> f] :
             f \in UNION {[S -> TopicFileContents] :
                             S \in (SUBSET Range(TopicOrder)) \ {{}}}}

RegionsFiles ==
    {[is_file |-> FALSE]}
    \cup {[is_file |-> TRUE, lines |-> l] :
             l \in UNION {[1..n -> PeakLines] : n \in 1..MaxPeaks}}

ChromsizesFiles ==
    {[given |-> FALSE],
     [given |-> TRUE, is_file |-> FALSE],
     [given |-> TRUE, is_file |-> TRUE, sizes |-> (Chr_c :> 11)],
     [given |-> TRUE, is_file |-> TRUE, sizes |-> (Chr_c :> 12 @@ Chr_c1 :> 11)]}

TopicsSubsets ==
    {[given |-> FALSE],
     [given |-> TRUE, list |-> <<"Topic_1">>],
     [given |-> TRUE, list |-> <<"Topic_2", "Topic_1">>],
     [given |-> TRUE, list |-> <<"Topic_1", "Topic_1">>]}

InitTopics ==
    /\ bed = <<>>
    /\ genome = NoGenome
    /\ targetsFile = <<>>
    /\ args = DefaultArgs
    /\ ds = [i \in Inst |-> Off]
    /\ gen = IdleGen
    /\ sp = Off
    /\ loader = Off
    /\ cfgds = Off
    /\ \E folder \in TopicsFolders, regions \in RegionsFiles,
          sizes \in ChromsizesFiles, subset \in TopicsSubsets,
          remove \in BOOLEAN, compress \in BOOLEAN :
          io = [pc |-> "new",
                topics_folder |-> folder, regions_file |-> regions,
                chromsizes_file |-> sizes, topics_subset |-> subset,
                remove_no_topics |-> remove, compress |-> compress,
                result |-> <<>>, error |-> <<>>, reads |-> <<>>,
                previous |-> [given |-> FALSE]]

SpecTopics == InitTopics /\ [][ImportTopics]_vars

\* SpecCompress: two calls that differ in compress only
InitCompress ==
    /\ InitTopics
    /\ ~InputMissing(io)
    /\ io.topics_subset.given => io.topics_subset.list = <<"Topic_1">>

NextCompress == ImportTopics \/ ImportTopicsAgain

SpecCompress == InitCompress /\ [][NextCompress]_vars

(***************************************************************************)
(* Vocabulary of the properties.                                           *)
(***************************************************************************)
Splits == {"train", "val", "test"}

Done(i) == ds[i].pc = "done"

ChromsOf(regions) == {regions[k].chrom : k \in DOMAIN regions}

\* the chromosome of the region a Python index refers to
ChromAt(i, idx) == ds[i].all_regions[idx + 1].chrom

\* the chromosome sets recorded for the splits are pairwise disjoint, and no
\* chromosome has region indices in two splits
SplitsDisjoint(i) ==
    \A s, u \in Splits :
        s # u =>
            /\ Range(ds[i].chroms[s]) \cap Range(ds[i].chroms[u]) = {}
            /\ \A x \in Range(ds[i].indices[s]), y \in Range(ds[i].indices[u]) :
                   ChromAt(i, x) # ChromAt(i, y)

ExplicitListsApart ==
    Range(args.split_dict.val) \cap Range(args.split_dict.test) = {}

\* C1 as claimed: after construction with any split_dict whose val and test
\* lists are explicit or empty, the chromosome sets of train, val and test are
\* pairwise disjoint and no chromosome has indices in two splits.
C1_DisjointForAnySplitDict == \A i \in Inst : Done(i) => SplitsDisjoint(i)

\* C1 (amended): the same, for a split_dict whose explicit val and test lists
\* name no chromosome in common.
C1_DisjointSplits ==
    \A i \in Inst : Done(i) /\ ExplicitListsApart => SplitsDisjoint(i)

\* an auto-selected val beside an explicit test, every split holding regions
C1_Witness ==
    /\ Done(1)
    /\ args.split_dict.val = <<>> /\ args.split_dict.test # <<>>
    /\ \A s \in Splits : ds[1].indices[s] # <<>>

\* C2: with fraction_of_data = 1.0 the train chromosomes are all chromosomes
\* of the loaded regions but those finally in split_dict['val'] and
\* split_dict['test'], and every region on none of these is in
\* indices['train'].
C2_TrainIsTheRest ==
    \A i \in Inst :
        Done(i) /\ args.fNum = args.fDen =>
            /\ Range(ds[i].chroms.train) =
                 ChromsOf(ds[i].all_regions)
                   \ (Range(ds[i].split_dict.val) \cup Range(ds[i].split_dict.test))
            /\ \A k \in DOMAIN ds[i].all_regions :
                   ds[i].all_regions[k].chrom
                       \notin (Range(ds[i].split_dict.val)
                                 \cup Range(ds[i].split_dict.test))
                     => (k - 1) \in Range(ds[i].indices.train)

C2_Witness ==
    /\ Done(1) /\ args.fNum = args.fDen
    /\ args.split_dict.test = <<>> /\ ds[1].split_dict.test # <<>>
    /\ ds[1].split_dict.val # <<>>
    /\ ds[1].indices.train # <<>>

\* position of the first region on chromosome c
FirstPos(regions, c) ==
    CHOOSE k \in DOMAIN regions :
        regions[k].chrom = c /\ \A j \in 1..(k - 1) : regions[j].chrom # c

\* c comes before e by ascending region count, ties by first appearance
ComesBefore(regions, c, e) ==
    \/ ChromCount(regions, c) < ChromCount(regions, e)
    \/ /\ ChromCount(regions, c) = ChromCount(regions, e)
       /\ FirstPos(regions, c) < FirstPos(regions, e)

\* selected is a prefix of that order over the chromosomes not excluded
IsPrefixSelection(regions, excluded, selected) ==
    /\ selected \subseteq ChromsOf(regions) \ excluded
    /\ \A e \in selected :
         \A c \in ChromsOf(regions) \ excluded :
            ComesBefore(regions, c, e) => c \in selected

\* C3: what _select_chromosomes_for_subset returns (for val: with the train
\* and test lists excluded; for test: with the train list and the final val
\* list excluded) is a prefix of the non-excluded chromosomes by ascending
\* region count, ties in first-appearance order, and holds no excluded
\* chromosome.
C3_SelectsPrefix ==
    \A i \in Inst :
        Done(i) =>
            /\ args.split_dict.val = <<>> =>
                 IsPrefixSelection(ds[i].all_regions,
                     Range(args.split_dict.train) \cup Range(args.split_dict.test),
                     Range(ds[i].split_dict.val))
            /\ args.split_dict.test = <<>> =>
                 IsPrefixSelection(ds[i].all_regions,
                     Range(args.split_dict.train) \cup Range(ds[i].split_dict.val),
                     Range(ds[i].split_dict.test))

\* a tie is broken: a selected chromosome has as many regions as one that is
\* not excluded and not selected
C3_Witness ==
    /\ Done(1) /\ args.split_dict.val = <<>>
    /\ \E e \in Range(ds[1].split_dict.val) :
         \E c \in ChromsOf(ds[1].all_regions)
                    \ (Range(ds[1].split_dict.val) \cup Range(args.split_dict.train)
                         \cup Range(args.split_dict.test)) :
            ChromCount(ds[1].all_regions, c) = ChromCount(ds[1].all_regions, e)

\* the list fraction_of_data = 1.0 gives a split: every index on the split's
\* chromosomes, ascending
FullIndices(i, s) == IndicesOf(ds[i].all_regions, Range(ds[i].chroms[s]))

\* the first ceil(n * f) entries, computed on the fraction itself
FirstCeil(list) ==
    SubSeq(list, 1,
        CHOOSE m \in 0..Len(list) :
            /\ m * args.fDen >= Len(list) * args.fNum
            /\ (m - 1) * args.fDen < Len(list) * args.fNum)

Expected(i, s) ==
    IF args.fNum = args.fDen THEN FullIndices(i, s) ELSE FirstCeil(FullIndices(i, s))

\* C8: each list _get_indices_for_set_type returns is the first ceil(n * f)
\* entries of the n-entry list f = 1.0 gives, and that list itself when
\* f = 1.0.  The train list is indices['train']; the val and test lists are
\* what lines 155-162 then thin out, and are indices['val'] and
\* indices['test'] when neither thinning applies.
C8_FractionKeepsFirstCeil ==
    \A i \in Inst :
        Done(i) =>
            /\ ds[i].indices.train = Expected(i, "train")
            /\ \A s \in {"val", "test"} :
                 /\ ds[i].indices[s] = HeldOutIndices(Expected(i, s), args)
                 /\ ~args.reverse_complement /\ ~args.shift_augmentation_pre_used
                      => ds[i].indices[s] = Expected(i, s)

\* a fraction below 1 whose product with the list length is not whole
C8_Witness ==
    /\ Done(1) /\ args.fNum # args.fDen
    /\ (Len(FullIndices(1, "train")) * args.fNum) % args.fDen # 0
    /\ ds[1].indices.val # <<>>
    /\ Len(ds[1].indices.train) < Len(FullIndices(1, "train"))

\* C4: two constructions from the same region list, split_dict contents and
\* settings have the same indices['train'], indices['val'] and
\* indices['test'], whatever order list() gives the selected chromosomes in
\* either construction, also when chromosomes have equal region counts.
C4_SameIndices ==
    Done(1) /\ Done(2) => ds[1].indices = ds[2].indices

\* the two constructions listed the auto-selected val chromosomes, which have
\* equal region counts, in different orders
C4_Witness ==
    /\ Done(1) /\ Done(2)
    /\ ds[1].split_dict.val # ds[2].split_dict.val
    /\ \E c, e \in Range(ds[1].split_dict.val) :
         c # e /\ ChromCount(ds[1].all_regions, c) = ChromCount(ds[1].all_regions, e)
    /\ ds[1].indices.val # <<>> /\ ds[1].indices.train # <<>>

\* the generator has yielded; its last yield and the region it came from
HasYielded == gen.pc # "idle" /\ gen.out # <<>>

LastYield == gen.out[1]

YieldedRegion == ds[gen.inst].all_regions[LastYield.sample_idx + 1]

\* C5: for a region within its chromosome and shift_n_bp > 0, every shift
\* the train generator draws leaves the region within the chromosome:
\* start + shift >= 0 and end + shift <= chromsize.
C5_ShiftStaysInChromosome ==
    HasYielded /\ args.shift_n_bp > 0 /\ gen.split = "train" =>
        /\ LastYield.start = YieldedRegion.start + LastYield.shift
        /\ LastYield.end = YieldedRegion.end + LastYield.shift
        /\ LastYield.start >= 0
        /\ LastYield.end <= args.chromsizes[YieldedRegion.chrom]

\* a region moved down to the start of its chromosome
C5_Witness ==
    /\ HasYielded /\ args.shift_n_bp > 0 /\ gen.split = "train"
    /\ LastYield.shift < 0
    /\ LastYield.start = 0

\* the forward-strand sequence of the yielded coordinates
ForwardSequence ==
    Slice(genome[YieldedRegion.chrom], LastYield.start, LastYield.end)

\* C6: for strand '-' the generator yields the reverse complement of the
\* forward sequence of [start, end) (every base complemented, the order
\* reversed); for strand '+' it yields the forward sequence.
C6_MinusStrandIsReverseComplement ==
    HasYielded =>
        LastYield.sequence =
            IF YieldedRegion.strand = "-"
            THEN Reverse(Complement(ForwardSequence))
            ELSE ForwardSequence

\* regions k and k + 1 are the two strands of one BED line, with one target
StrandPair(i, k) ==
    /\ ds[i].all_regions[k].strand = "+"
    /\ ds[i].all_regions[k + 1] = [ds[i].all_regions[k] EXCEPT !.strand = "-"]
    /\ ds[i].targets[k] = ds[i].targets[k + 1]

\* C7: after construction, for every combination of reverse_complement and
\* specificity_filtering, all_regions and targets have the same length and
\* entry k of each comes from the same BED line; with reverse_complement
\* every kept line gives a '+' region immediately followed by a '-' region
\* of the same coordinates and the same target row.
C7_RegionsAlignedWithTargets ==
    \A i \in Inst :
        Done(i) =>
            /\ Len(ds[i].all_regions) = Len(ds[i].targets)
            /\ \A k \in DOMAIN ds[i].all_regions :
                   ds[i].all_regions[k].line = ds[i].targets[k].line
            /\ args.reverse_complement =>
                   /\ Len(ds[i].all_regions) % 2 = 0
                   /\ \A k \in DOMAIN ds[i].all_regions :
                          k % 2 = 1 => StrandPair(i, k)

SplitterDone == sp.pc = "done" /\ Get(sp.split_config, "strategy", "None") = "random"

IndexSet(key) == Range(sp.indices[key])

\* C9: DatasetSplitter with strategy 'random' and fractions in [0, 1]
\* partitions the region indices: train, val and test are pairwise disjoint
\* and together are 0 .. n-1, train has floor(n * train_fraction) entries,
\* val has at most floor(n * val_fraction) entries, test holds the rest.
C9_RandomSplitIsPartition ==
    SplitterDone =>
        /\ IndexSet("train") \cap IndexSet("val") = {}
        /\ IndexSet("train") \cap IndexSet("test") = {}
        /\ IndexSet("val") \cap IndexSet("test") = {}
        /\ IndexSet("train") \cup IndexSet("val") \cup IndexSet("test")
              = 0..(Len(sp.regions) - 1)
        /\ Len(sp.indices.train) + Len(sp.indices.val) + Len(sp.indices.test)
              = Len(sp.regions)
        /\ Len(sp.indices.train)
              = NumOf(Len(sp.regions),
                      Get(sp.split_config, "train_fraction", DefaultTrainFraction))
        /\ Len(sp.indices.val)
              <= NumOf(Len(sp.regions),
                       Get(sp.split_config, "val_fraction", DefaultValFraction))
        /\ IndexSet("test")
              = (0..(Len(sp.regions) - 1)) \ (IndexSet("train") \cup IndexSet("val"))

\* a shuffled split with entries in all three subsets
C9_Witness ==
    /\ SplitterDone
    /\ sp.indices.train # <<>>
    /\ sp.indices.val # <<>>
    /\ sp.indices.test # <<>>
    /\ sp.indices.train \o sp.indices.val \o sp.indices.test
          # [k \in 1..Len(sp.regions) |-> k - 1]

Returned == io.pc = "returned"

SameRegion(line, peak) ==
    /\ line.chrom = peak.chrom
    /\ line.start = peak.start
    /\ line.end = peak.end

InTopicFile(t, peak) ==
    \E k \in DOMAIN io.topics_folder.files[t] :
        SameRegion(io.topics_folder.files[t][k], peak)

\* cell (i, j) of a CSR matrix: the stored value of column j - 1 in row i,
\* or 0 when none is stored
CsrCell(csr, i, j) ==
    IF \E p \in (csr.indptr[i] + 1)..csr.indptr[i + 1] : csr.indices[p] = j - 1
    THEN csr.data[CHOOSE p \in (csr.indptr[i] + 1)..csr.indptr[i + 1] :
                     csr.indices[p] = j - 1]
    ELSE 0

\* cell (i, j) and the shape of the X of a result, whatever its format
CellOf(result, i, j) ==
    IF result.sparse THEN CsrCell(result.X, i, j) ELSE result.X[i][j]

ShapeOf(result) ==
    IF result.sparse THEN result.X.shape
    ELSE <<Len(result.X), IF result.X = <<>> THEN 0 ELSE Len(result.X[1])>>

Cell(i, j) == CellOf(io.result, i, j)

Shape == ShapeOf(io.result)

\* C10: import_topics returns a binary matrix whose entry for topic t and
\* consensus region r is 1 exactly when a line of topic t's BED file has the
\* chromosome, start and end of r, and 0 otherwise, for every included
\* topic and every retained consensus region.
C10_EntryIsOneIffSameRegion ==
    Returned =>
        /\ Range(io.result.obs_names) = Range(IncludedTopics(io))
        /\ Shape = <<Len(io.result.obs_names), Len(io.result.var)>>
        /\ \A i \in DOMAIN io.result.obs_names :
              /\ \A j \in DOMAIN io.result.var :
                    /\ io.result.var[j].chr = io.result.var[j].peak.chrom
                    /\ io.result.var[j].start = io.result.var[j].peak.start
                    /\ io.result.var[j].end = io.result.var[j].peak.end
                    /\ Cell(i, j) =
                          IF InTopicFile(io.result.obs_names[i], io.result.var[j].peak)
                          THEN 1 ELSE 0

\* a returned matrix with a 1 and with a 0 for a region that differs from a
\* line of the topic's file in the end only
C10_Witness ==
    /\ Returned
    /\ \E i \in DOMAIN io.result.obs_names : \E j \in DOMAIN io.result.var :
          Cell(i, j) = 1
    /\ \E i \in DOMAIN io.result.obs_names : \E j \in DOMAIN io.result.var :
          /\ Cell(i, j) = 0
          /\ \E line \in Range(io.topics_folder.files[io.result.obs_names[i]]) :
                /\ line.chrom = io.result.var[j].peak.chrom
                /\ line.start = io.result.var[j].peak.start
                /\ line.end # io.result.var[j].peak.end


\* position of a file name in the sorted order of names
NameRank(t) == CHOOSE k \in DOMAIN TopicOrder : TopicOrder[k] = t

\* the topic files of the folder that the call asks for
AskedTopics ==
    {t \in DOMAIN io.topics_folder.files :
        io.topics_subset.given => t \in Range(io.topics_subset.list)}

\* one row per asked topic file, in sorted file-name order, with the obs and
\* var columns and each file_path being the path of the row's file
RowsAndColumns ==
    /\ Range(io.result.obs_names) = AskedTopics
    /\ Shape[1] = Len(io.result.obs_names)
    /\ \A i, j \in DOMAIN io.result.obs_names :
          i < j => NameRank(io.result.obs_names[i]) < NameRank(io.result.obs_names[j])
    /\ DOMAIN io.result.obs = DOMAIN io.result.obs_names
    /\ \A i \in DOMAIN io.result.obs :
          /\ {"file_path", "n_open_regions"} \subseteq DOMAIN io.result.obs[i]
          /\ io.result.obs[i].file_path.stem = io.result.obs_names[i]
          /\ io.result.obs[i].file_path.suffix = ".bed"
    /\ \A j \in DOMAIN io.result.var : "n_topics" \in DOMAIN io.result.var[j]

\* C11 as stated: one row per topic BED file, in sorted file-name order,
\* restricted to topics_subset when given, so that the row count equals
\* len(topics_subset); obs has file_path and n_open_regions, var has
\* n_topics, and file_path of row i is the path of the file of row i.
C11_RowCountIsLenOfSubset ==
    Returned =>
        /\ RowsAndColumns
        /\ io.topics_subset.given =>
              Len(io.result.obs_names) = Len(io.topics_subset.list)

\* C11 amended: as above, the row count being the number of distinct names
\* in topics_subset.
C11_RowPerTopicFile ==
    Returned =>
        /\ RowsAndColumns
        /\ io.topics_subset.given =>
              Len(io.result.obs_names) = Cardinality(Range(io.topics_subset.list))

\* a returned object of two rows for a subset that names them in the other order
C11_Witness ==
    /\ Returned
    /\ io.topics_subset.given
    /\ io.topics_subset.list = <<"Topic_2", "Topic_1">>
    /\ io.result.obs_names = <<"Topic_1", "Topic_2">>


\* a line lies inside its chromosome, by the sizes of the chromsizes file
InsideChromosome(chrom, start, end) ==
    /\ chrom \in DOMAIN io.chromsizes_file.sizes
    /\ start >= 0
    /\ end <= io.chromsizes_file.sizes[chrom]

IsRetained(line) == \E j \in DOMAIN io.result.var : io.result.var[j].peak = line

\* open in an included topic
OpenSomewhere(line) == \E t \in AskedTopics : InTopicFile(t, line)

\* C12: with a chromsizes file, every region of the returned object has a
\* listed chromosome, start >= 0 and end <= that chromosome's size; a
\* consensus region that violates one of these is removed, and one that
\* satisfies all of them is not removed by this check.
C12_RetainedWithinChromosomes ==
    (Returned /\ io.chromsizes_file.given) =>
        /\ \A j \in DOMAIN io.result.var :
              InsideChromosome(io.result.var[j].chr, io.result.var[j].start,
                               io.result.var[j].end)
        /\ \A k \in DOMAIN io.regions_file.lines :
              LET line == io.regions_file.lines[k]
              IN  /\ ~InsideChromosome(line.chrom, line.start, line.end)
                        => ~IsRetained(line)
                  /\ (/\ InsideChromosome(line.chrom, line.start, line.end)
                      /\ io.remove_no_topics => OpenSomewhere(line))
                        => IsRetained(line)

\* a returned object that lost a region to the chromsizes check alone
C12_Witness ==
    /\ Returned
    /\ io.chromsizes_file.given
    /\ ~io.remove_no_topics
    /\ Len(io.result.var) = 1
    /\ Len(io.regions_file.lines) = 2
    /\ \E k \in DOMAIN io.regions_file.lines :
          /\ io.regions_file.lines[k].chrom \in DOMAIN io.chromsizes_file.sizes
          /\ io.regions_file.lines[k].end
                > io.chromsizes_file.sizes[io.regions_file.lines[k].chrom]


\* the four input checks, each on its own
FolderMissing == ~io.topics_folder.is_dir
RegionsMissing == ~io.regions_file.is_file
ChromsizesMissing == io.chromsizes_file.given /\ ~io.chromsizes_file.is_file
MissingTopics ==
    IF io.topics_subset.given /\ io.topics_folder.is_dir
    THEN {t \in Range(io.topics_subset.list) : t \notin DOMAIN io.topics_folder.files}
    ELSE {}

\* C13: import_topics raises FileNotFoundError, before reading any BED
\* content and without a result, when topics_folder is not a directory, when
\* regions_file is not a file, when a given chromsizes_file is not a file, or
\* when a name of topics_subset has no file in topics_folder; the first
\* failing check, in that order, determines the error.
C13_FileNotFoundInOrder ==
    io.pc # "new" =>
        /\ io.pc = "FileNotFoundError"
              <=> (FolderMissing \/ RegionsMissing \/ ChromsizesMissing
                      \/ MissingTopics # {})
        /\ io.pc = "FileNotFoundError" =>
              /\ io.result = <<>>
              /\ io.reads = <<>>
              /\ io.error.name = "topics_folder" <=> FolderMissing
              /\ io.error.name = "regions_file"
                    <=> (~FolderMissing /\ RegionsMissing)
              /\ io.error.name = "chromsizes_file"
                    <=> (~FolderMissing /\ ~RegionsMissing /\ ChromsizesMissing)
              /\ io.error.what = "Topic"
                    <=> (~FolderMissing /\ ~RegionsMissing /\ ~ChromsizesMissing)
              /\ io.error.what = "Topic" => io.error.name \in MissingTopics
        /\ io.pc # "FileNotFoundError" => io.reads # <<>>

\* an error for the topics folder although the regions file is missing too
C13_Witness ==
    /\ io.pc = "FileNotFoundError"
    /\ FolderMissing
    /\ RegionsMissing
    /\ io.error.name = "topics_folder"


Labels(var) == [j \in DOMAIN var |-> var[j].region]

\* C14: compress changes only the storage format of X: the results of the
\* same call with compress=True and compress=False have the same shape, the
\* same row and column labels and the same value in every cell, CSR sparse
\* in the first case and dense in the second.
C14_CompressKeepsCells ==
    io.previous.given =>
        /\ io.pc = "returned"
        /\ io.result.sparse = io.compress
        /\ io.previous.result.sparse = ~io.compress
        /\ ShapeOf(io.result) = ShapeOf(io.previous.result)
        /\ io.result.obs_names = io.previous.result.obs_names
        /\ Labels(io.result.var) = Labels(io.previous.result.var)
        /\ \A i \in DOMAIN io.result.obs_names : \A j \in DOMAIN io.result.var :
              CellOf(io.result, i, j) = CellOf(io.previous.result, i, j)

\* both calls returned a matrix of two rows and two columns with the 1s of
\* the first row in both columns and of the second row in the second
C14_Witness ==
    /\ io.previous.given
    /\ io.pc = "returned"
    /\ ShapeOf(io.previous.result) = <<2, 2>>
    /\ Cell(1, 1) = 1 /\ Cell(1, 2) = 1
    /\ Cell(2, 1) = 0 /\ Cell(2, 2) = 1


\* a consensus line that the chromsizes check, when there is one, lets pass
PassesChromsizes(line) ==
    io.chromsizes_file.given => InsideChromosome(line.chrom, line.start, line.end)

RetainedPeaks == [j \in DOMAIN io.result.var |-> io.result.var[j].peak]

\* the number of included topics a region is open in
OpenIn(line) == Cardinality({t \in AskedTopics : InTopicFile(t, line)})

\* C15: with remove_no_topics=True every returned region is open in at
\* least one included topic (n_topics >= 1) and exactly the regions open in
\* no included topic are removed; with remove_no_topics=False those regions
\* are retained with n_topics = 0.
C15_RegionsWithoutTopics ==
    Returned =>
        /\ \A j \in DOMAIN io.result.var :
              /\ io.result.var[j].n_topics = OpenIn(io.result.var[j].peak)
              /\ io.remove_no_topics => io.result.var[j].n_topics >= 1
        /\ io.remove_no_topics =>
              RetainedPeaks
                 = SelectSeq(io.regions_file.lines,
                             LAMBDA l : PassesChromsizes(l) /\ OpenIn(l) > 0)
        /\ ~io.remove_no_topics =>
              RetainedPeaks = SelectSeq(io.regions_file.lines, PassesChromsizes)

\* the first of two different regions is open in no topic and was removed
C15_Witness ==
    /\ Returned
    /\ io.remove_no_topics
    /\ ~io.chromsizes_file.given
    /\ Len(io.regions_file.lines) = 2
    /\ Len(io.result.var) = 1
    /\ io.result.var[1].peak = io.regions_file.lines[2]
    /\ io.regions_file.lines[1] # io.regions_file.lines[2]


\* the Gini coefficient of a row by its definition: the mean absolute
\* difference of the values (clipped at 0, plus the code's 1e-7) over twice
\* their mean, as <<numerator, denominator>>
Clipped(vals) == [j \in DOMAIN vals |-> (IF vals[j] < 0 THEN 0 ELSE vals[j]) + GiniEps]

GiniOfValues(x) ==
    <<SumSeq([i \in DOMAIN x |-> SumSeq([j \in DOMAIN x |-> Abs(x[i] - x[j])])]),
      2 * Len(x) * SumSeq(x)>>

\* the Gini scores of all rows over one denominator
ScoreNumerators(T) ==
    CommonNumerators([r \in DOMAIN T |-> GiniOfValues(Clipped(T[r].vals))])

\* n * (score of row r - mean of the scores)
AboveMean(N, r) == Len(N) * N[r] - SumSeq(N)

\* score of row r > mean + 1 * standard deviation of the scores
IsSpecific(N, r) ==
    /\ AboveMean(N, r) > 0
    /\ Len(N) * AboveMean(N, r) * AboveMean(N, r)
          > SumSeq([k \in DOMAIN N |-> AboveMean(N, k) * AboveMean(N, k)])

SpecificRows(T) ==
    SelectSeq([r \in DOMAIN T |-> r], LAMBDA r : IsSpecific(ScoreNumerators(T), r))

\* the arguments of filter_regions_on_specificity in the construction
FilterTargets == LoadedTargets(targetsFile, args.task, args.target_goal)
FilterRegions == LoadBedFile(bed, args.reverse_complement)

Filtering(i) == Done(i) /\ args.task = "deeppeak" /\ args.specificity_filtering

\* C16: filter_regions_on_specificity keeps exactly the regions whose Gini
\* score is strictly greater than mean + gini_std_threshold * standard
\* deviation of the scores of all regions; the returned targets and regions
\* have equal length, keep the input order, and the i-th of each comes from
\* the same input index.
C16_KeepsSpecificRegions ==
    \A i \in Inst :
        Filtering(i) =>
            /\ ds[i].all_regions = SelectSeqBy(FilterRegions, SpecificRows(FilterTargets))
            /\ ds[i].targets
                  = IF args.reverse_complement
                    THEN Repeat2(SelectSeqBy(FilterTargets, SpecificRows(FilterTargets)))
                    ELSE SelectSeqBy(FilterTargets, SpecificRows(FilterTargets))
            /\ ~args.reverse_complement =>
                  /\ Len(ds[i].all_regions) = Len(ds[i].targets)
                  /\ \A k \in DOMAIN ds[i].targets :
                        /\ ds[i].all_regions[k].line = ds[i].targets[k].line
                        /\ \A l \in DOMAIN ds[i].targets :
                              k < l => ds[i].targets[k].line < ds[i].targets[l].line

\* two regions kept out of five, in the order of the file
C16_Witness ==
    /\ Filtering(1)
    /\ ~args.reverse_complement
    /\ Len(bed) = 5
    /\ Len(ds[1].all_regions) = 2
    /\ ds[1].all_regions[1].line = 2
    /\ ds[1].all_regions[2].line = 4


\* the number of regions on a set of chromosomes
CountOn(regions, chroms) ==
    Cardinality({k \in DOMAIN regions : regions[k].chrom \in chroms})

\* round(0.1 * n): the nearest integer to n / 10, the even one of two
RoundedTenth(n) ==
    CHOOSE r \in 0..((n \div 10) + 1) :
        \A q \in 0..((n \div 10) + 1) :
            \/ Abs(10 * r - n) < Abs(10 * q - n)
            \/ Abs(10 * r - n) = Abs(10 * q - n) /\ (r = q \/ r % 2 = 0)

\* the sums of the prefixes of the ascending-count order, the empty one included
PrefixSums(regions, excluded) ==
    {CountOn(regions, P) :
        P \in {Q \in SUBSET (ChromsOf(regions) \ excluded) :
                  IsPrefixSelection(regions, excluded, Q)}}

\* count is a prefix sum nearest to target, the smaller of two at equal distance
NearestPrefixSum(regions, excluded, count, target) ==
    /\ count \in PrefixSums(regions, excluded)
    /\ \A s \in PrefixSums(regions, excluded) :
          \/ Abs(count - target) < Abs(s - target)
          \/ Abs(count - target) = Abs(s - target) /\ count <= s
    /\ target > 0 => count < 2 * target
    /\ target = 0 => count = 0

SelectionIsNearest(regions, excluded, selected) ==
    NearestPrefixSum(regions, excluded, CountOn(regions, selected),
                     RoundedTenth(CountOn(regions, ChromsOf(regions) \ excluded)))

\* C17: with target_count = round(0.1 * regions on non-excluded
\* chromosomes), the number of regions on the chromosomes that
\* _select_chromosomes_for_subset returns is a prefix sum of the
\* ascending-count order with minimal distance to target_count, the smaller
\* on a tie; it is below 2 * target_count when target_count > 0 and 0 when
\* target_count = 0.
C17_SelectedCountNearestToTarget ==
    \A i \in Inst :
        Done(i) =>
            /\ args.split_dict.val = <<>> =>
                 SelectionIsNearest(ds[i].all_regions,
                     Range(args.split_dict.train) \cup Range(args.split_dict.test),
                     Range(ds[i].split_dict.val))
            /\ args.split_dict.test = <<>> =>
                 SelectionIsNearest(ds[i].all_regions,
                     Range(args.split_dict.train) \cup Range(ds[i].split_dict.val),
                     Range(ds[i].split_dict.test))

\* a tie: nothing selected for val although the first chromosome is as far
\* above the target as the empty selection is below it
C17_Witness ==
    /\ Done(1)
    /\ args.split_dict.val = <<>>
    /\ ds[1].split_dict.val = <<>>
    /\ \E s \in PrefixSums(ds[1].all_regions,
                          Range(args.split_dict.train) \cup Range(args.split_dict.test)) :
          /\ s > 0
          /\ s = 2 * RoundedTenth(CountOn(ds[1].all_regions,
                     ChromsOf(ds[1].all_regions)
                        \ (Range(args.split_dict.train) \cup Range(args.split_dict.test))))


SplitKeys == {"train", "val", "test"}

Strategy == Get(sp.split_config, "strategy", "None")

WholeData == sp.fraction_of_data.num = sp.fraction_of_data.den

Listed(key) == Range(Get(sp.split_config, key, <<>>))

\* C18: with strategy 'chromosome' and fraction_of_data = 1.0, every region
\* whose chromosome is not listed under 'val' or 'test' is assigned to
\* train, so every region index is in exactly one of the three splits.
C18_UnlistedChromosomesGoToTrain ==
    (sp.pc = "done" /\ Strategy = "chromosome" /\ WholeData) =>
        \A k \in DOMAIN sp.regions :
            /\ sp.regions[k].chrom \notin (Listed("val") \cup Listed("test"))
                  => k - 1 \in IndexSet("train")
            /\ Cardinality({key \in SplitKeys : k - 1 \in IndexSet(key)}) = 1

\* the size a split has over the whole data: by chromosome the regions of
\* its chromosomes, at random the slice lengths
WholeSize(key) ==
    IF Strategy = "chromosome"
    THEN Len(IndicesInSubset(sp.regions, sp.split_config, key))
    ELSE Len(RandomIndices([k \in 1..Len(sp.regions) |-> k - 1],
                 NumOf(Len(sp.regions),
                       Get(sp.split_config, "train_fraction", DefaultTrainFraction)),
                 NumOf(Len(sp.regions),
                       Get(sp.split_config, "val_fraction", DefaultValFraction)))[key])

\* C19: a fraction_of_data f other than 1.0 sub-samples each split under
\* the strategies 'chromosome' and 'random': each split holds only the first
\* floor(n * f) of the n indices it would hold with f = 1.0.
C19_FractionSubsamplesEverySplit ==
    (sp.pc = "done" /\ Strategy \in {"chromosome", "random"} /\ ~WholeData) =>
        \A key \in SplitKeys :
            /\ Len(sp.indices[key]) = NumOf(WholeSize(key), sp.fraction_of_data)
            /\ Strategy = "chromosome" =>
                  sp.indices[key]
                     = Take(IndicesInSubset(sp.regions, sp.split_config, key),
                            NumOf(WholeSize(key), sp.fraction_of_data))


StrandAt(i, idx) == ds[i].all_regions[idx + 1].strand

\* C20: with reverse_complement, for any fraction_of_data and any
\* shift_augmentation_pre_used / n_shifts setting, every index of
\* indices['val'] and indices['test'] refers to a '+' region, while
\* indices['train'] keeps both strands.
C20_HeldOutSplitsAreForwardOnly ==
    \A i \in Inst :
        (Done(i) /\ args.reverse_complement) =>
            /\ \A s \in {"val", "test"} :
                  \A idx \in Range(ds[i].indices[s]) : StrandAt(i, idx) = "+"
            /\ \A k \in DOMAIN ds[i].indices.train :
                  (StrandAt(i, ds[i].indices.train[k]) = "+"
                      /\ k < Len(ds[i].indices.train))
                     => ds[i].indices.train[k + 1] = ds[i].indices.train[k] + 1


(***************************************************************************)
(* C21: shift augmentation is for the train split only                     *)
(***************************************************************************)

\* the sample the generator would yield from the region's own coordinates
UnshiftedYield == Yield(ds[gen.inst], LastYield.sample_idx, 0)

\* C21: the k-th sample the generator yields for a split is the k-th index of
\* that split with targets[index], and its region keeps its length
\* end - start; for 'val' and 'test', and for 'train' with shift_n_bp = 0,
\* the coordinates are the region's own [start, end) and the sequence is the
\* one at those coordinates, whatever shift_n_bp is.
C21_ShiftOnlyOnTrain ==
    HasYielded =>
        /\ LastYield.sample_idx = ds[gen.inst].indices[gen.split][gen.pos]
        /\ LastYield.target = ds[gen.inst].targets[LastYield.sample_idx + 1]
        /\ LastYield.end - LastYield.start
               = YieldedRegion.end - YieldedRegion.start
        /\ (gen.split # "train" \/ args.shift_n_bp = 0) =>
               /\ LastYield.start = YieldedRegion.start
               /\ LastYield.end = YieldedRegion.end
               /\ LastYield.sequence = UnshiftedYield.sequence

\* the second sample of a held-out split, yielded with a positive shift_n_bp
\* from a region that has room to move
C21_Witness ==
    /\ HasYielded /\ gen.split = "val" /\ args.shift_n_bp > 0
    /\ gen.pos = 2
    /\ YieldedRegion.start > 0

\* a train region that was moved
C21_WitnessTrainShifted ==
    /\ HasYielded /\ gen.split = "train" /\ LastYield.shift # 0


(***************************************************************************)
(* C22: the chromsizes checks of the two constructors                      *)
(***************************************************************************)

Constructed(obj) == obj.pc \notin {"off", "new"}

\* a construction that stopped with ValueError before any split index was
\* computed and before any file was written
RaisedBeforeSplits(obj) ==
    /\ obj.pc = "ValueError"
    /\ "indices" \notin DOMAIN obj
    /\ "saved" \notin DOMAIN obj

ShiftWithoutChromsizes == args.shift_n_bp > 0 /\ ~args.chromsizes_given

\* chromsizes is given and lacks a chromosome of the BED file
LacksChromosome ==
    /\ args.chromsizes_given
    /\ \E k \in DOMAIN bed :
          ~bed[k].comment /\ bed[k].chrom \notin DOMAIN args.chromsizes

\* C22: with a positive shift and chromsizes = None both constructors raise
\* ValueError, and the split_dict-based constructor also raises ValueError
\* when chromsizes lacks a chromosome of the BED regions; the error comes
\* before any split index is computed or any output file is written.
C22_ValueErrorBeforeSplits ==
    /\ Constructed(ds[1]) /\ (ShiftWithoutChromsizes \/ LacksChromosome)
           => RaisedBeforeSplits(ds[1])
    /\ Constructed(cfgds) /\ ShiftWithoutChromsizes
           => RaisedBeforeSplits(cfgds)

\* the part of C22 about the split_dict-based constructor
C22_SplitDictConstructorRaises ==
    Constructed(ds[1]) /\ (ShiftWithoutChromsizes \/ LacksChromosome)
        => RaisedBeforeSplits(ds[1])

\* both kinds of error of the split_dict-based constructor happen
C22_SplitDictWitness ==
    /\ Constructed(ds[1]) /\ LacksChromosome /\ args.shift_n_bp > 0
    /\ ds[1].pc = "ValueError"

\* the config-based constructor stopped in GenomicRegionLoader
C22_ConfigRaisesTypeError ==
    Constructed(cfgds) /\ ShiftWithoutChromsizes /\ cfgds.pc = "TypeError"

(***************************************************************************)
(* C23: the range of shifts of a region within its chromosome              *)
(***************************************************************************)

\* the generator is at a sample of the train split that it has to shift
AtTrainShift ==
    /\ gen.pc \in {"running", "ValueError"}
    /\ gen.split = "train" /\ args.shift_n_bp > 0
    /\ gen.pos < Len(ds[gen.inst].indices["train"])

RegionAtHand ==
    ds[gen.inst].all_regions[ds[gen.inst].indices["train"][gen.pos + 1] + 1]

WithinChromosome(region) ==
    /\ 0 <= region.start /\ region.start < region.end
    /\ region.end <= args.chromsizes[region.chrom]

ShiftsAtHand ==
    ShiftRange(RegionAtHand.start, RegionAtHand.end,
               args.chromsizes[RegionAtHand.chrom], args.shift_n_bp)

AugmentAtHand ==
    StochasticShiftAugment(RegionAtHand.start, RegionAtHand.end,
                           args.chromsizes[RegionAtHand.chrom],
                           args.shift_n_bp)

\* C23: for a region with 0 <= start < end <= chromsize and shift_n_bp > 0
\* the range of shifts [-min(shift_n_bp, start), min(shift_n_bp,
\* chromsize - end)) is not empty, so the train generator and
\* stochastic_shift_augment give a shifted region and do not fail.
C23_ShiftRangeNeverEmpty ==
    AtTrainShift /\ WithinChromosome(RegionAtHand) =>
        /\ ShiftsAtHand # {}
        /\ gen.pc # "ValueError"
        /\ \A r \in AugmentAtHand : r.pc = "ok"

\* the range is empty exactly for a region that spans its chromosome
C23_EmptyOnlyForWholeChromosome ==
    AtTrainShift /\ WithinChromosome(RegionAtHand) =>
        /\ ShiftsAtHand = {} <=>
              /\ RegionAtHand.start = 0
              /\ RegionAtHand.end = args.chromsizes[RegionAtHand.chrom]
        /\ gen.pc = "ValueError" => ShiftsAtHand = {}

\* the generator failed on a region that spans its chromosome
C23_WholeChromosomeFails ==
    /\ AtTrainShift /\ WithinChromosome(RegionAtHand)
    /\ RegionAtHand.start = 0
    /\ RegionAtHand.end = args.chromsizes[RegionAtHand.chrom]
    /\ gen.pc = "ValueError"

(***************************************************************************)
(* C24: the regions of a GenomicRegionLoader                               *)
(***************************************************************************)

BedLines == SelectSeq(bed, LAMBDA l : ~l.comment)

SameEntry(region, l, strand) ==
    /\ region.chrom = l.chrom
    /\ region.start = l.start
    /\ region.end = l.end
    /\ region.strand = strand

\* one '+' entry per BED line, followed by its '-' entry when
\* reverse_complement is true
HoldsBedLines(regions, reverse_complement) ==
    IF reverse_complement
    THEN /\ Len(regions) = 2 * Len(BedLines)
         /\ \A k \in DOMAIN BedLines :
               /\ SameEntry(regions[2 * k - 1], BedLines[k], "+")
               /\ SameEntry(regions[2 * k], BedLines[k], "-")
    ELSE /\ Len(regions) = Len(BedLines)
         /\ \A k \in DOMAIN BedLines :
               SameEntry(regions[k], BedLines[k], "+")

\* C24: constructing GenomicRegionLoader on a readable BED file and FASTA
\* file succeeds; regions then holds, in file order, one '+' entry per BED
\* line that is not a comment, each followed by a '-' entry when
\* reverse_complement is true, and get_region(i) returns entry i.
C24_LoaderHoldsBedRegions ==
    Constructed(loader) =>
        /\ loader.pc = "done"
        /\ HoldsBedLines(loader.regions, args.reverse_complement)
        /\ \A i \in 0..(Len(loader.regions) - 1) :
              GetRegion(loader, i) = loader.regions[i + 1]

\* what the constructor does instead
C24_LoaderRaisesTypeError ==
    Constructed(loader) => loader.pc = "TypeError"

====
